---------------------------- MODULE Spec2Model ----------------------------
(***************************************************************************)
(* Model of the market-data pipeline of the screener repository            *)
(* (src/pages/index.tsx, the crypto-data API handler, lines 1330-2079).    *)
(*                                                                         *)
(* The specifications that share this module:                              *)
(*   Spec        the handler under requests that arrive while earlier      *)
(*               ones are still being handled: cache check, universe       *)
(*               resolution, batches, merge, cache update;                 *)
(*   SpecCache   three requests in every interleaving, for the cache       *)
(*               entry they write and read;                                *)
(*   SpecRun     the first request after start-up, alone, against a wide   *)
(*               family of upstream answers (SpecRunFair: the same run     *)
(*               with every await resuming);                               *)
(*   SpecRetry   one call of retryWithBackoff against an upstream that     *)
(*               answers each attempt arbitrarily;                         *)
(*   SpecSymbol  one per-symbol task of a batch (batchPromises), applied   *)
(*               to upstream answers drawn from bounded families;          *)
(*   SpecBatch   the batch loop of one run at the grain of single          *)
(*               requests: which tasks are in flight, and when;            *)
(*   SpecPage    the page that holds the last snapshot (Home, lines        *)
(*               41-210): full fetches and streamed price updates;         *)
(*   SpecPaths   two requests along every exit of the handler;             *)
(*   SpecSocket  the connections of useBinanceWebSocket: effect runs,      *)
(*               open and close events, reconnect timers (SpecSocketFair:  *)
(*               with every due timer firing); SpecStream: the messages    *)
(*               of the stream;                                            *)
(*   SpecSort    the page's sort state under header clicks and fetches;    *)
(*   SpecWatchlists, SpecProfiles                                          *)
(*               useWatchlists and useColumnProfiles with localStorage.    *)
(*                                                                         *)
(* JavaScript numbers are modelled as exact rationals <<n, d>> (d > 0,     *)
(* lowest terms) with the IEEE special values NaN = <<0,0>>,               *)
(* +Infinity = <<1,0>> and -Infinity = <<-1,0>>.  Rounding and the sign    *)
(* of zero are not modelled.  Times are milliseconds.                      *)
(***************************************************************************)
EXTENDS Integers, Sequences, FiniteSets, TLC

VARIABLES
    \* ---- handler (Spec) ----
    cache,      \* the module-level Map entry 'crypto-data': absent or [data, timestamp]
    now,        \* Date.now()
    ticks,      \* number of clock advances so far (bounds the model)
    req,        \* per request: position in handler, locals, response, history
    \* ---- retryWithBackoff (SpecRetry) ----
    rt,
    \* ---- one per-symbol task (SpecSymbol) ----
    task,
    \* ---- the batch loop of one run (SpecBatch) ----
    loop,
    \* ---- the page holding the snapshot (SpecPage) ----
    page,
    \* ---- useBinanceWebSocket (SpecSocket) ----
    sock,
    \* ---- the page's sort state (SpecSort) ----
    sorting,
    \* ---- useWatchlists (SpecWatchlists) ----
    watch,
    \* ---- useColumnProfiles (SpecProfiles) ----
    prof

handlerVars == <<cache, now, ticks, req>>
retryVars   == <<rt>>
symbolVars  == <<task>>
loopVars    == <<loop>>
pageVars == <<page>>
hookVars == <<sock, sorting, watch, prof>>
vars == <<cache, now, ticks, req, rt, task, loop, page, sock, sorting, watch, prof>>

-----------------------------------------------------------------------------
(* Numbers *)

NaN    == <<0, 0>>
PosInf == <<1, 0>>
NegInf == <<-1, 0>>

Abs(x) == IF x < 0 THEN -x ELSE x
Sign(x) == IF x < 0 THEN -1 ELSE IF x > 0 THEN 1 ELSE 0

RECURSIVE GCD(_, _)
GCD(a, b) == IF b = 0 THEN a ELSE GCD(b, a % b)

\* The number n/d; d = 0 gives NaN or an infinity by the sign of n.
Q(n, d) ==
    IF d = 0 THEN <<Sign(n), 0>>
    ELSE LET g == GCD(Abs(n), Abs(d))
             s == IF d < 0 THEN -1 ELSE 1
         IN  <<(s * n) \div g, (s * d) \div g>>

Num(n) == <<n, 1>>

isNaN(x)    == x = NaN
isFinite(x) == x[2] # 0

Neg(x) == <<-x[1], x[2]>>

Add(x, y) ==
    IF isNaN(x) \/ isNaN(y) THEN NaN
    ELSE IF ~isFinite(x) /\ ~isFinite(y) THEN (IF x = y THEN x ELSE NaN)
    ELSE IF ~isFinite(x) THEN x
    ELSE IF ~isFinite(y) THEN y
    ELSE Q(x[1] * y[2] + y[1] * x[2], x[2] * y[2])

Sub(x, y) == Add(x, Neg(y))

Mul(x, y) ==
    IF isNaN(x) \/ isNaN(y) THEN NaN
    ELSE IF ~isFinite(x) \/ ~isFinite(y)
         THEN <<Sign(x[1]) * Sign(y[1]), 0>>
    ELSE Q(x[1] * y[1], x[2] * y[2])

Div(x, y) ==
    IF isNaN(x) \/ isNaN(y) THEN NaN
    ELSE IF ~isFinite(x) /\ ~isFinite(y) THEN NaN
    ELSE IF ~isFinite(x) THEN <<Sign(x[1]) * (IF y[1] < 0 THEN -1 ELSE 1), 0>>
    ELSE IF ~isFinite(y) THEN Num(0)
    ELSE IF y[1] = 0 THEN <<Sign(x[1]), 0>>
    ELSE Q(x[1] * y[2], x[2] * y[1])

\* x < y, x > y, x >= y: every comparison with NaN is false.
Lt(x, y) ==
    /\ ~isNaN(x) /\ ~isNaN(y)
    /\ IF isFinite(x) /\ isFinite(y) THEN x[1] * y[2] < y[1] * x[2]
       ELSE IF x = y THEN FALSE
       ELSE x = NegInf \/ y = PosInf
Gt(x, y) == Lt(y, x)
Ge(x, y) == ~isNaN(x) /\ ~isNaN(y) /\ ~Lt(x, y)
Le(x, y) == Ge(y, x)

\* JavaScript truthiness of a number: 0 and NaN are falsy.
Truthy(x) == ~isNaN(x) /\ x # Num(0)

Min(S) == CHOOSE i \in S : \A j \in S : i <= j

RECURSIVE Pow2(_)
Pow2(k) == IF k = 0 THEN 1 ELSE 2 * Pow2(k - 1)

-----------------------------------------------------------------------------
(* Strings of upstream payloads and their conversions *)

\* What parseFloat makes of the strings the modelled payloads carry: the
\* longest numeric prefix, NaN when there is none.
parseFloatTable ==
    ("0" :> Num(0)) @@ ("-5" :> Num(-5)) @@ ("1" :> Num(1)) @@
    ("50" :> Num(50)) @@ ("90" :> Num(90)) @@ ("100" :> Num(100)) @@
    ("110" :> Num(110)) @@ ("120" :> Num(120)) @@ ("110usd" :> Num(110)) @@
    ("0.5" :> Q(1, 2)) @@ ("9999" :> Num(9999)) @@ ("10000" :> Num(10000)) @@
    ("20000" :> Num(20000)) @@ ("30000" :> Num(30000)) @@
    ("1000" :> Num(1000)) @@ ("1500" :> Num(1500)) @@ ("2000" :> Num(2000))

parseFloat(s) == IF s \in DOMAIN parseFloatTable THEN parseFloatTable[s] ELSE NaN

\* parseInt on the retry-after header values of the modelled answers.
parseIntTable == ("0" :> Num(0)) @@ ("2" :> Num(2)) @@ ("7" :> Num(7))

parseInt(s) == IF s \in DOMAIN parseIntTable THEN parseIntTable[s] ELSE NaN

Missing == "undefined"     \* an absent header or string field
Absent == <<>>             \* an absent (undefined) optional number
Null == [null |-> TRUE]    \* null: a null array row, a task's `return null`
NoResult == [kind |-> "none"]

-----------------------------------------------------------------------------
(* retryWithBackoff  (index.tsx 1497-1518) *)

MaxRetriesDefault == 3
BaseDelayDefault == 1000
OIMaxRetries == 2
OIBaseDelay == 500

\* The call sites with their (maxRetries, baseDelay): the two kline fetches
\* (1545, 1558) and the OI-history fetch (1860) use the defaults, the
\* current-OI fetch (1805) passes (2, 500).
RetryConfigsAllDefault ==
    { [site |-> site, maxRetries |-> MaxRetriesDefault, baseDelay |-> BaseDelayDefault] :
        site \in {"klines", "currentOI", "oiHistory"} }
RetryConfigs ==
    { [site |-> "klines", maxRetries |-> MaxRetriesDefault, baseDelay |-> BaseDelayDefault],
      [site |-> "oiHistory", maxRetries |-> MaxRetriesDefault, baseDelay |-> BaseDelayDefault],
      [site |-> "currentOI", maxRetries |-> OIMaxRetries, baseDelay |-> OIBaseDelay] }

\* One answer of the upstream to fn(): a response, or an axios error with
\* the response status (0: no response at all, a network error or timeout)
\* and, on a 429, the retry-after header.
RetryAfterHeaders == {Missing, "", "0", "2", "7", "soon"}
RetryPayloads == {"payload1", "payload2"}
UpstreamAnswers ==
    [ok : {TRUE}, value : RetryPayloads]
    \cup [ok : {FALSE}, status : {429}, retryAfter : RetryAfterHeaders]
    \cup [ok : {FALSE}, status : {0, 500}, retryAfter : {Missing}]

\* axios settles the request by validateStatus: the OI-history request
\* passes status < 500 (1870), so its 4xx answers are responses, not errors;
\* the other requests keep the default, and every answer outside 2xx throws.
validateStatus(site, status) ==
    IF site = "oiHistory" THEN status < 500 ELSE status >= 200 /\ status < 300
AxiosSettle(site, ans) ==
    IF ~ans.ok /\ ans.status # 0 /\ validateStatus(site, ans.status)
    THEN [ok |-> TRUE, value |-> "unsuccessful"]
    ELSE ans

\* if (error?.response?.status === 429 && attempt < maxRetries - 1)
ShouldRetryAnyError(err, attempt, maxRetries) == attempt < maxRetries - 1
ShouldRetry(err, attempt, maxRetries) ==
    err.status = 429 /\ attempt < maxRetries - 1

\* retryAfter = headers['retry-after'] ? parseInt(header) * 1000
\*                                     : baseDelay * Math.pow(2, attempt)
\* (a string is truthy unless empty)
RetryAfterMsNoDoubling(err, attempt, baseDelay) ==
    IF err.retryAfter # Missing /\ err.retryAfter # ""
    THEN Mul(parseInt(err.retryAfter), Num(1000))
    ELSE Num(baseDelay)
RetryAfterMs(err, attempt, baseDelay) ==
    IF err.retryAfter # Missing /\ err.retryAfter # ""
    THEN Mul(parseInt(err.retryAfter), Num(1000))
    ELSE Num(baseDelay * Pow2(attempt))

RetryInit ==
    \E cfg \in RetryConfigs :
        rt = [pc |-> "call", site |-> cfg.site, maxRetries |-> cfg.maxRetries,
              baseDelay |-> cfg.baseDelay, attempt |-> 0,
              calls |-> 0, answers |-> <<>>, waits |-> <<>>,
              result |-> NoResult]

RetryIdle ==
    rt = [pc |-> "idle", site |-> "klines", maxRetries |-> MaxRetriesDefault,
          baseDelay |-> BaseDelayDefault, attempt |-> 0,
          calls |-> 0, answers |-> <<>>, waits |-> <<>>, result |-> NoResult]

\* try { return await fn(); } catch (error) { ... }
RetryAttempt ==
    /\ rt.pc = "call"
    /\ \E upstream \in UpstreamAnswers :
        LET ans == AxiosSettle(rt.site, upstream)
            called == [rt EXCEPT !.calls = @ + 1, !.answers = Append(@, ans)]
        IN  rt' = IF ans.ok
                  THEN [called EXCEPT !.pc = "returned", !.result = ans]
                  ELSE IF ShouldRetry(ans, rt.attempt, rt.maxRetries)
                  THEN [called EXCEPT !.pc = "delay"]
                  ELSE [called EXCEPT !.pc = "threw", !.result = ans]
    /\ UNCHANGED <<handlerVars, symbolVars, loopVars, pageVars, hookVars>>

\* await delay(retryAfter); continue;  then the loop test attempt < maxRetries,
\* and `return null` when it fails.
RetryDelayElapsed ==
    /\ rt.pc = "delay"
    /\ LET err == rt.answers[Len(rt.answers)]
           waited == [rt EXCEPT
                        !.waits = Append(@, RetryAfterMs(err, rt.attempt, rt.baseDelay)),
                        !.attempt = @ + 1]
       IN  rt' = IF waited.attempt < waited.maxRetries
                 THEN [waited EXCEPT !.pc = "call"]
                 ELSE [waited EXCEPT !.pc = "returned", !.result = Null]
    /\ UNCHANGED <<handlerVars, symbolVars, loopVars, pageVars, hookVars>>

RetryNext == RetryAttempt \/ RetryDelayElapsed

-----------------------------------------------------------------------------
(* One per-symbol task of a batch: batchPromises  (index.tsx 1532-2026) *)

Rep(x, n) == [i \in 1..n |-> x]

\* The settled promise of one retryWithBackoff call: fulfilled with an axios
\* response (status, data) or rejected with an axios error (status 0: no
\* response).  data is an array of rows or undefined.  An array is held
\* run-length encoded, <<[n, row], ...>>, and expanded where it is read.
Run(n, row) == [n |-> n, row |-> row]
Rows(rows) == [i \in 1..Len(rows) |-> Run(1, rows[i])]

RECURSIVE Expand(_)
Expand(runs) ==
    IF runs = <<>> THEN <<>> ELSE Rep(Head(runs).row, Head(runs).n) \o Expand(Tail(runs))

ArrayData(runs) == [kind |-> "array", runs |-> runs]
NoData == [kind |-> "undefined"]
Fulfilled(status, data) == [st |-> "fulfilled", status |-> status, data |-> data]
Rejected(status) == [st |-> "rejected", status |-> status]

\* response.data || []
DataOrEmpty(data) == IF data.kind = "array" THEN Expand(data.runs) ELSE <<>>

Row(h, l, c, v) == [high |-> h, low |-> l, close |-> c, volume |-> v]
\* A candle whose high, low and close are all the string c.
Flat(c, v) == Row(c, c, c, v)

\* klines.slice(-days)
SliceLast(rows, days) ==
    IF Len(rows) <= days THEN rows ELSE SubSeq(rows, Len(rows) - days + 1, Len(rows))

validClose(row) ==
    LET close == parseFloat(row.close) IN Gt(close, Num(0)) /\ ~isNaN(close)

\* rows.some(kline => { close = parseFloat(kline[4]); return close > 0 && !isNaN(close) })
\* with reading kline[4] of a null row throwing: "throw" when a null row
\* comes before the first valid one.
SomeValid(rows) ==
    LET stops == {i \in 1..Len(rows) : rows[i] = Null \/ validClose(rows[i])}
    IN  IF stops = {} THEN "false"
        ELSE IF rows[Min(stops)] = Null THEN "throw" ELSE "true"

HasNull(rows) == \E i \in 1..Len(rows) : rows[i] = Null

\* 1d response (1573-1583): the rows, or drop: the task returns null.
KlinesOf(resp) ==
    IF resp.st = "fulfilled"
    THEN [drop |-> FALSE, rows |-> DataOrEmpty(resp.data)]
    ELSE [drop |-> TRUE, rows |-> <<>>]

\* 4h response (1585-1595): optional, a failure continues with no rows.
Klines4hOf(resp) ==
    IF resp.st = "fulfilled" THEN DataOrEmpty(resp.data) ELSE <<>>

\* Rolling returns (1625-1644): close k periods back, 0 with too few candles.
\* klines[klines.length - back] is rows[Len(rows) - back + 1].
RollingReturn(rows, currentPrice, back) ==
    IF Len(rows) >= back
    THEN LET ref == parseFloat(rows[Len(rows) - back + 1].close)
         IN  Mul(Div(Sub(currentPrice, ref), ref), Num(100))
    ELSE Num(0)

typicalPrice(row) ==
    Div(Add(Add(parseFloat(row.high), parseFloat(row.low)), parseFloat(row.close)), Num(3))

\* Left-to-right sums of the loop at 1654-1663, over rows[lo..hi]; the
\* range is halved so that long windows do not nest deeply.
RECURSIVE SumPriceVolume(_, _, _)
SumPriceVolume(rows, lo, hi) ==
    IF lo > hi THEN Num(0)
    ELSE IF lo = hi
    THEN Mul(typicalPrice(rows[lo]), parseFloat(rows[lo].volume))
    ELSE LET mid == (lo + hi) \div 2
         IN  Add(SumPriceVolume(rows, lo, mid), SumPriceVolume(rows, mid + 1, hi))

RECURSIVE SumVolume(_, _, _)
SumVolume(rows, lo, hi) ==
    IF lo > hi THEN Num(0)
    ELSE IF lo = hi THEN parseFloat(rows[lo].volume)
    ELSE LET mid == (lo + hi) \div 2
         IN  Add(SumVolume(rows, lo, mid), SumVolume(rows, mid + 1, hi))

\* calculateVWAP with 0 in place of the current price when nothing traded.
calculateVWAPZeroFallback(rows, currentPrice, days) ==
    LET periodKlines == SliceLast(rows, days)
        totalPriceVolume == SumPriceVolume(periodKlines, 1, Len(periodKlines))
        totalVolume == SumVolume(periodKlines, 1, Len(periodKlines))
        vwap == IF Gt(totalVolume, Num(0)) THEN Div(totalPriceVolume, totalVolume)
                ELSE Num(0)
        distance == IF Gt(vwap, Num(0))
                    THEN Mul(Div(Sub(currentPrice, vwap), vwap), Num(100))
                    ELSE Num(0)
    IN  [vwap |-> vwap, distance |-> distance]
\* calculateVWAP (1649-1669)
calculateVWAP(rows, currentPrice, days) ==
    LET periodKlines == SliceLast(rows, days)
        totalPriceVolume == SumPriceVolume(periodKlines, 1, Len(periodKlines))
        totalVolume == SumVolume(periodKlines, 1, Len(periodKlines))
        vwap == IF Gt(totalVolume, Num(0)) THEN Div(totalPriceVolume, totalVolume)
                ELSE currentPrice
        distance == IF Gt(vwap, Num(0))
                    THEN Mul(Div(Sub(currentPrice, vwap), vwap), Num(100))
                    ELSE Num(0)
    IN  [vwap |-> vwap, distance |-> distance]

\* The loop of 1702-1705 over closes[lo..hi] starting from ema, the range
\* halved so that a long series does not nest deeply.
RECURSIVE EmaFold(_, _, _, _, _)
EmaFold(closes, lo, hi, ema, k) ==
    IF lo > hi THEN ema
    ELSE IF lo = hi
    THEN Add(Mul(closes[lo], k), Mul(ema, Sub(Num(1), k)))
    ELSE LET mid == (lo + hi) \div 2
             left == EmaFold(closes, lo, mid, ema, k)
         IN  IF left = NaN THEN NaN ELSE EmaFold(closes, mid + 1, hi, left, k)

emaValid(row) ==
    LET close == parseFloat(row.close)
    IN  ~isNaN(close) /\ Gt(close, Num(0)) /\ isFinite(close)

\* validKlines of 1687-1690, as their closes.
ValidCloses(rows) ==
    LET validKlines == SelectSeq(rows, emaValid)
    IN  [i \in 1..Len(validKlines) |-> parseFloat(validKlines[i].close)]

\* calculateEMA that counts candles, not valid closes.
calculateEMAByLength(rows, currentPrice, period) ==
    IF Len(rows) < period THEN currentPrice
    ELSE LET valid == ValidCloses(rows)
             ema == EmaFold(valid, 2, Len(valid), valid[1], Q(2, period + 1))
         IN  IF isNaN(ema) \/ Le(ema, Num(0)) \/ ~isFinite(ema)
             THEN currentPrice ELSE ema
\* calculateEMA (1681-1713), on rows without a null row.
calculateEMA(rows, currentPrice, period) ==
    IF Len(rows) < period THEN currentPrice
    ELSE LET valid == ValidCloses(rows)
         IN  IF Len(valid) < period THEN currentPrice
             ELSE LET ema == EmaFold(valid, 2, Len(valid), valid[1], Q(2, period + 1))
                  IN  IF isNaN(ema) \/ Le(ema, Num(0)) \/ ~isFinite(ema)
                      THEN currentPrice ELSE ema

EmaPeriod == 200

\* ema2004h and priceFor4hDistance (1717-1732).  calculateEMA throws on a
\* null row (its filter reads kline[4]); the catch resets the EMA to the
\* current price and the distance price has not been assigned yet.
Ema4hZeroDefault(klines4h, hasValidKlines4h, currentPrice) ==
    IF hasValidKlines4h /\ Len(klines4h) >= EmaPeriod /\ ~HasNull(klines4h)
    THEN LET last4hClose == parseFloat(klines4h[Len(klines4h)].close)
         IN  [ema |-> calculateEMA(klines4h, currentPrice, EmaPeriod),
              price |-> IF ~isNaN(last4hClose) /\ Gt(last4hClose, Num(0))
                        THEN last4hClose ELSE currentPrice]
    ELSE [ema |-> Num(0), price |-> currentPrice]
Ema4h(klines4h, hasValidKlines4h, currentPrice) ==
    IF hasValidKlines4h /\ Len(klines4h) >= EmaPeriod
    THEN IF HasNull(klines4h)
         THEN [ema |-> currentPrice, price |-> currentPrice]
         ELSE LET last4hClose == parseFloat(klines4h[Len(klines4h)].close)
              IN  [ema |-> calculateEMA(klines4h, currentPrice, EmaPeriod),
                   price |-> IF ~isNaN(last4hClose) /\ Gt(last4hClose, Num(0))
                             THEN last4hClose ELSE currentPrice]
    ELSE [ema |-> currentPrice, price |-> currentPrice]

\* ema2001d and priceFor1dDistance (1734-1746), on rows without a null row.
Ema1d(klines, currentPrice) ==
    LET last1dClose == parseFloat(klines[Len(klines)].close)
    IN  [ema |-> calculateEMA(klines, currentPrice, EmaPeriod),
         price |-> IF ~isNaN(last1dClose) /\ Gt(last1dClose, Num(0))
                   THEN last1dClose ELSE currentPrice]

\* ema200Distance (1749-1750)
EmaDistance(e) ==
    IF Gt(e.ema, Num(0)) THEN Mul(Div(Sub(e.price, e.ema), e.ema), Num(100))
    ELSE Num(0)

\* z-score (1754-1794).  The code's value is (mean - todayReturn) / stdDev with
\* stdDev the square root of the population variance; the model keeps the
\* sign of the numerator and the square of the quotient, which determine it.
RECURSIVE HistoricalReturns(_)
HistoricalReturns(rows) ==
    IF Len(rows) < 2 THEN <<>>
    ELSE LET prevClose == parseFloat(rows[1].close)
             currClose == parseFloat(rows[2].close)
             rest == HistoricalReturns(Tail(rows))
         IN  IF Gt(prevClose, Num(0)) /\ Gt(currClose, Num(0))
                /\ ~isNaN(prevClose) /\ ~isNaN(currClose)
             THEN <<Mul(Div(Sub(currClose, prevClose), prevClose), Num(100))>> \o rest
             ELSE rest

RECURSIVE SumSeq(_)
SumSeq(xs) == IF xs = <<>> THEN Num(0) ELSE Add(Head(xs), SumSeq(Tail(xs)))

RECURSIVE SumSqDev(_, _)
SumSqDev(xs, mean) ==
    IF xs = <<>> THEN Num(0)
    ELSE Add(Mul(Sub(Head(xs), mean), Sub(Head(xs), mean)), SumSqDev(Tail(xs), mean))

ZWindow == 31
ZMinReturns == 30
NoZScore == [present |-> FALSE]

\* The z-score with 0 standing in where the deviation is 0.
zScoreOfZeroStandIn(klines, currentPrice, dailyReturn) ==
    IF Len(klines) < ZWindow THEN NoZScore
    ELSE LET historicalReturns == HistoricalReturns(SliceLast(klines, ZWindow))
         IN  IF Len(historicalReturns) < ZMinReturns THEN NoZScore
             ELSE LET n == Num(Len(historicalReturns))
                      mean == Div(SumSeq(historicalReturns), n)
                      variance == Div(SumSqDev(historicalReturns, mean), n)
                      lastCandleClose == parseFloat(klines[Len(klines)].close)
                      todayReturn ==
                          IF Gt(lastCandleClose, Num(0))
                          THEN Mul(Div(Sub(currentPrice, lastCandleClose), lastCandleClose), Num(100))
                          ELSE dailyReturn
                      diff == Sub(mean, todayReturn)
                  IN  IF Gt(variance, Num(0)) /\ ~isNaN(mean) /\ ~isNaN(variance)
                         /\ ~isNaN(todayReturn)
                      THEN [present |-> TRUE, sign |-> Sign(diff[1]),
                            square |-> Div(Mul(diff, diff), variance)]
                      ELSE [present |-> TRUE, sign |-> 0, square |-> Num(0)]
\* zScore (1754-1794)
zScoreOf(klines, currentPrice, dailyReturn) ==
    IF Len(klines) < ZWindow THEN NoZScore
    ELSE LET historicalReturns == HistoricalReturns(SliceLast(klines, ZWindow))
         IN  IF Len(historicalReturns) < ZMinReturns THEN NoZScore
             ELSE LET n == Num(Len(historicalReturns))
                      mean == Div(SumSeq(historicalReturns), n)
                      variance == Div(SumSqDev(historicalReturns, mean), n)
                      lastCandleClose == parseFloat(klines[Len(klines)].close)
                      todayReturn ==
                          IF Gt(lastCandleClose, Num(0))
                          THEN Mul(Div(Sub(currentPrice, lastCandleClose), lastCandleClose), Num(100))
                          ELSE dailyReturn
                      diff == Sub(mean, todayReturn)
                  IN  IF Gt(variance, Num(0)) /\ ~isNaN(mean) /\ ~isNaN(variance)
                         /\ ~isNaN(todayReturn)
                      THEN [present |-> TRUE, sign |-> Sign(diff[1]),
                            square |-> Div(Mul(diff, diff), variance)]
                      ELSE NoZScore

\* formatZScore (361-391): what the table shows for a z-score, the value
\* with its own sign, green from 0 upwards and red below.
formatZScore(zScore) ==
    IF ~zScore.present THEN [text |-> "N/A", colour |-> "tertiary"]
    ELSE IF zScore.sign >= 0 THEN [text |-> "+", colour |-> "positive"]
    ELSE [text |-> "-", colour |-> "negative"]

-----------------------------------------------------------------------------
(* Open interest  (index.tsx 1796-1984) *)

OIData(openInterest) == [kind |-> "oi", openInterest |-> openInterest]
WrappedData(runs) == [kind |-> "wrapped", runs |-> runs]
OIEntry(sumOpenInterest, timestamp) ==
    [sumOpenInterest |-> sumOpenInterest, timestamp |-> timestamp]

\* currentOI (1803-1838): Absent when the request failed (catch at 1824),
\* when the response carries no data (reading data.openInterest throws, catch
\* at 1980) or when the value is not a positive number.
CurrentOIOf(resp) ==
    IF resp.st # "fulfilled" THEN Absent
    ELSE IF resp.data.kind # "oi" THEN Absent
    ELSE LET currentOI == parseFloat(resp.data.openInterest)
         IN  IF Gt(currentOI, Num(0)) /\ ~isNaN(currentOI) THEN currentOI ELSE Absent

\* One candidate's answer (1875-1890): its rows when it is status 200 with a
\* non-empty array (bare, or under .data), else <<>>.
HistRowsOf(resp) ==
    IF resp.st # "fulfilled" THEN <<>>
    ELSE IF resp.status # 200 THEN <<>>
    ELSE IF resp.data.kind \in {"array", "wrapped"} THEN Expand(resp.data.runs)
    ELSE <<>>

\* The loop without its break: the last accepted candidate is kept.
RECURSIVE LastAccepted(_)
LastAccepted(resps) ==
    IF resps = <<>> THEN <<>>
    ELSE IF LastAccepted(Tail(resps)) # <<>> THEN LastAccepted(Tail(resps))
    ELSE HistRowsOf(Head(resps))

\* for (const endpoint of endpoints) ... break on the first accepted.
RECURSIVE FirstAccepted(_)
FirstAccepted(resps) ==
    IF resps = <<>> THEN <<>>
    ELSE IF HistRowsOf(Head(resps)) # <<>> THEN HistRowsOf(Head(resps))
    ELSE FirstAccepted(Tail(resps))

\* The periods requested (1851-1855, 1857-1900): none when the current
\* open interest is unusable (1838), else one after the other up to the
\* first accepted.
Endpoints == <<"1h", "5m", "1d">>
RECURSIVE TriedUntilAccepted(_)
TriedUntilAccepted(resps) ==
    IF resps = <<>> THEN 0
    ELSE IF HistRowsOf(Head(resps)) # <<>> THEN 1
    ELSE 1 + TriedUntilAccepted(Tail(resps))
RequestedPeriods(oiResp, histResps) ==
    IF CurrentOIOf(oiResp) = Absent THEN <<>>
    ELSE SubSeq(Endpoints, 1, TriedUntilAccepted(histResps))

validOI(entry) ==
    LET oiValue == parseFloat(entry.sumOpenInterest)
    IN  ~isNaN(oiValue) /\ Gt(oiValue, Num(0))

intervals24h == (24 * 60) \div 5
intervals7d == (7 * 24 * 60) \div 5
Tolerance24h == 2 * 60 * 60 * 1000
Tolerance7d == 12 * 60 * 60 * 1000
DayMs == 24 * 60 * 60 * 1000

\* oiHistory[intervals] (1911-1925); index 0 is rows[1].
OIAtIndex(oiHistory, intervals) ==
    IF Len(oiHistory) > intervals /\ oiHistory[intervals + 1] # Null
       /\ validOI(oiHistory[intervals + 1])
    THEN parseFloat(oiHistory[intervals + 1].sumOpenInterest)
    ELSE Absent

\* The scan of 1928-1953: the first entry with a timestamp within the
\* tolerance of the target and a positive value.
FirstWithin(oiHistory, target, tolerance) ==
    LET hits == {i \in 1..Len(oiHistory) :
                    /\ oiHistory[i] # Null
                    /\ oiHistory[i].timestamp # 0
                    /\ Abs(oiHistory[i].timestamp - target) < tolerance
                    /\ validOI(oiHistory[i])}
    IN  IF hits = {} THEN Absent
        ELSE parseFloat(oiHistory[Min(hits)].sumOpenInterest)

PastOI(oiHistory, intervals, target, tolerance) ==
    IF OIAtIndex(oiHistory, intervals) # Absent THEN OIAtIndex(oiHistory, intervals)
    ELSE FirstWithin(oiHistory, target, tolerance)

OIChange(currentOI, pastOI) ==
    IF pastOI # Absent /\ Gt(pastOI, Num(0))
    THEN Mul(Div(Sub(currentOI, pastOI), pastOI), Num(100))
    ELSE Absent

\* The whole open-interest block: oiChange24h and oiChange7d from the
\* current-OI answer and the answers of the three history candidates, at
\* time t (Date.now() of 1840).
OIChangesZeroDefault(oiResp, histResps, t) ==
    LET currentOI == CurrentOIOf(oiResp)
        oiHistory == FirstAccepted(histResps)
    IN  IF currentOI = Absent \/ oiHistory = <<>>
        THEN [oiChange24h |-> Num(0), oiChange7d |-> Num(0)]
        ELSE [oiChange24h |->
                OIChange(currentOI, PastOI(oiHistory, intervals24h, t - DayMs, Tolerance24h)),
              oiChange7d |->
                OIChange(currentOI, PastOI(oiHistory, intervals7d, t - 7 * DayMs, Tolerance7d))]
OIChanges(oiResp, histResps, t) ==
    LET currentOI == CurrentOIOf(oiResp)
        oiHistory == FirstAccepted(histResps)
    IN  IF currentOI = Absent \/ oiHistory = <<>>
        THEN [oiChange24h |-> Absent, oiChange7d |-> Absent]
        ELSE [oiChange24h |->
                OIChange(currentOI, PastOI(oiHistory, intervals24h, t - DayMs, Tolerance24h)),
              oiChange7d |->
                OIChange(currentOI, PastOI(oiHistory, intervals7d, t - 7 * DayMs, Tolerance7d))]

-----------------------------------------------------------------------------
(* The task *)

MinVolume == 10000
VwapWindows == <<7, 30, 90, 365>>

Ticker(symbol, lastPrice, quoteVolume) ==
    [symbol |-> symbol, lastPrice |-> lastPrice, quoteVolume |-> quoteVolume]

\* Validity gate (1986-1997).
\* The gate without its recent-data half.
PassesGateVolumeOnly(klines, volume) == Ge(volume, Num(MinVolume))
PassesGate(klines, volume) ==
    LET hasMinVolume == Ge(volume, Num(MinVolume))
        hasRecentData ==
            /\ Len(klines) >= 2
            /\ LET yesterdayClose == parseFloat(klines[Len(klines) - 1].close)
               IN  Gt(yesterdayClose, Num(0)) /\ ~isNaN(yesterdayClose)
    IN  hasMinVolume /\ hasRecentData

\* Every field of the record but the two open-interest changes (1617-1794),
\* for klines with a valid close and no null row among the last 365.
Indicators(ticker, klines, klines4h, hasValidKlines4h) ==
    LET currentPrice == parseFloat(ticker.lastPrice)
        dailyReturn == RollingReturn(klines, currentPrice, 2)
        vwap7d == calculateVWAP(klines, currentPrice, VwapWindows[1])
        vwap30d == calculateVWAP(klines, currentPrice, VwapWindows[2])
        vwap90d == calculateVWAP(klines, currentPrice, VwapWindows[3])
        vwap365d == calculateVWAP(klines, currentPrice, VwapWindows[4])
        e4h == Ema4h(klines4h, hasValidKlines4h, currentPrice)
        e1d == IF HasNull(klines) THEN [ema |-> currentPrice, price |-> currentPrice]
               ELSE Ema1d(klines, currentPrice)
    IN  [symbol |-> ticker.symbol,
         currentPrice |-> currentPrice,
         dailyReturn |-> dailyReturn,
         weeklyReturn |-> RollingReturn(klines, currentPrice, 8),
         monthlyReturn |-> RollingReturn(klines, currentPrice, 30),
         volume |-> parseFloat(ticker.quoteVolume),
         vwap7d |-> vwap7d.vwap, vwapDistance7d |-> vwap7d.distance,
         vwap30d |-> vwap30d.vwap, vwapDistance30d |-> vwap30d.distance,
         vwap90d |-> vwap90d.vwap, vwapDistance90d |-> vwap90d.distance,
         vwap365d |-> vwap365d.vwap, vwapDistance365d |-> vwap365d.distance,
         ema2004h |-> e4h.ema, ema200Distance4h |-> EmaDistance(e4h),
         ema2001d |-> e1d.ema, ema200Distance1d |-> EmaDistance(e1d),
         zScore |-> zScoreOf(klines, currentPrice, dailyReturn)]

OIFields == {"oiChange24h", "oiChange7d"}

\* The record with the two open-interest fields added (1999-2021).
WithOI(ind, oi) ==
    [f \in DOMAIN ind \cup OIFields |->
        IF f \in DOMAIN ind THEN ind[f] ELSE oi[f]]

\* The record without them.
WithoutOI(rec) == [f \in DOMAIN rec \ OIFields |-> rec[f]]

\* batchPromises' async callback for one ticker (1532-2026): the record, or
\* Null.  Every exception inside it is caught at 2022 and gives Null too.
\* The task up to the open-interest block (1533-1794): Null when it has
\* returned null or thrown by then, else the fields computed so far.
BeforeOI(ticker, klResp, kl4hResp) ==
    LET currentPrice == parseFloat(ticker.lastPrice)
        k == KlinesOf(klResp)
        klines == k.rows
        klines4h == Klines4hOf(kl4hResp)
        valid4h == IF Len(klines4h) > 0 THEN SomeValid(klines4h) ELSE "false"
    IN  IF ~Truthy(currentPrice) \/ Le(currentPrice, Num(0)) \/ isNaN(currentPrice)
        THEN Null
        ELSE IF k.drop THEN Null
        ELSE IF Len(klines) = 0 THEN Null
        ELSE IF SomeValid(klines) # "true" THEN Null
        ELSE IF valid4h = "throw" THEN Null
        ELSE IF HasNull(SliceLast(klines, VwapWindows[4])) THEN Null
        ELSE Indicators(ticker, klines, klines4h, valid4h = "true")

\* The rest of the task (1796-2021): the open-interest block, the validity
\* gate and the record.
AfterOI(ind, ticker, klResp, oiResp, histResps, t) ==
    IF ~PassesGate(KlinesOf(klResp).rows, parseFloat(ticker.quoteVolume))
    THEN Null
    ELSE WithOI(ind, OIChanges(oiResp, histResps, t))

SymbolTask(ticker, klResp, kl4hResp, oiResp, histResps, t) ==
    LET ind == BeforeOI(ticker, klResp, kl4hResp)
    IN  IF ind = Null THEN Null
        ELSE AfterOI(ind, ticker, klResp, oiResp, histResps, t)

-----------------------------------------------------------------------------
(* SpecSymbol: one task on upstream answers drawn from bounded families *)

TaskNow == 8 * DayMs
HourMs == 60 * 60 * 1000

Alternating(n) == [i \in 1..n |-> Flat(IF i % 2 = 0 THEN "110" ELSE "100", "1000")]

TaskTickers ==
    { Ticker("AUSDT", p, v) : p \in {"100", "110usd", "0", "abc"},
                              v \in {"20000", "10000", "9999"} }

\* Answers to the 1d klines request.
DailyAnswers ==
    { Rejected(429), Rejected(500), Rejected(0),
      Fulfilled(200, NoData),
      Fulfilled(200, ArrayData(<<>>)),
      Fulfilled(200, ArrayData(<<Run(1, Flat("100", "1000"))>>)),
      Fulfilled(200, ArrayData(<<Run(1, Flat("90", "1000")), Run(1, Flat("100", "1000"))>>)),
      Fulfilled(200, ArrayData(<<Run(1, Flat("90", "0")), Run(1, Flat("100", "0"))>>)),
      Fulfilled(200, ArrayData(<<Run(1, Flat("0", "1000")), Run(1, Flat("100", "1000"))>>)),
      Fulfilled(200, ArrayData(<<Run(1, Flat("abc", "1000")), Run(1, Flat("-5", "1000"))>>)),
      Fulfilled(200, ArrayData(<<Run(1, Null), Run(1, Flat("100", "1000"))>>)),
      Fulfilled(200, ArrayData(<<Run(7, Flat("100", "1000")),
                                 Run(1, Row("120", "90", "110", "1000"))>>)),
      Fulfilled(200, ArrayData(<<Run(3, Flat("90", "1000")), Run(7, Flat("100", "0"))>>)),
      Fulfilled(200, ArrayData(<<Run(1, Flat("0", "1000")), Run(7, Flat("100", "1000"))>>)),
      Fulfilled(200, ArrayData(Rows(Alternating(30)))),
      Fulfilled(200, ArrayData(Rows(Alternating(31)))),
      Fulfilled(200, ArrayData(<<Run(31, Flat("100", "1000"))>>)),
      Fulfilled(200, ArrayData(<<Run(1, Flat("abc", "1000")), Run(29, Flat("100", "1000")),
                                 Run(1, Flat("110", "1000"))>>)),
      Fulfilled(200, ArrayData(<<Run(200, Flat("100", "1000")),
                                 Run(1, Flat("110", "1000"))>>)) }

\* Answers to the 4h klines request.
FourHourAnswers ==
    { Rejected(429), Rejected(500), Rejected(0),
      Fulfilled(200, NoData),
      Fulfilled(200, ArrayData(<<>>)),
      Fulfilled(200, ArrayData(<<Run(1, Flat("90", "1000")), Run(1, Flat("100", "1000"))>>)),
      Fulfilled(200, ArrayData(<<Run(199, Flat("90", "1000"))>>)),
      Fulfilled(200, ArrayData(<<Run(200, Flat("90", "1000"))>>)),
      Fulfilled(200, ArrayData(<<Run(200, Flat("100", "1000")), Run(1, Flat("120", "1000"))>>)),
      Fulfilled(200, ArrayData(<<Run(199, Flat("100", "1000")), Run(1, Flat("abc", "1000"))>>)),
      Fulfilled(200, ArrayData(<<Run(199, Flat("100", "1000")), Run(1, Flat("abc", "1000")),
                                 Run(1, Flat("120", "1000"))>>)),
      Fulfilled(200, ArrayData(<<Run(200, Flat("100", "1000")), Run(1, Null)>>)),
      Fulfilled(200, ArrayData(<<Run(1, Null), Run(200, Flat("100", "1000"))>>)) }

\* Answers to the current-OI request.
OIAnswers ==
    { Rejected(429), Rejected(500), Rejected(0),
      Fulfilled(200, NoData),
      Fulfilled(200, OIData("abc")),
      Fulfilled(200, OIData("0")),
      Fulfilled(200, OIData("1500")) }

\* OI histories as the upstream would return them at time t.
HistoryNear(t) ==
    <<Run(1, OIEntry("1000", t - DayMs + HourMs)),
      Run(1, OIEntry("2000", t - 7 * DayMs - HourMs))>>
HistoryFar(t) ==
    <<Run(1, OIEntry("abc", t - DayMs)),
      Run(1, OIEntry("1000", t - DayMs - 3 * HourMs)), Run(1, Null),
      Run(1, OIEntry("2000", t - DayMs - HourMs))>>
HistoryLong(t) == <<Run(300, OIEntry("1000", 0))>>

\* Answers of the three OI-history candidates (1h, 5m, 1d), in order.
HistAnswers(t) ==
    { <<a, b, c>> :
        a \in { Rejected(500), Fulfilled(200, ArrayData(<<>>)),
                Fulfilled(200, ArrayData(HistoryNear(t))) },
        b \in { Fulfilled(429, NoData), Fulfilled(200, ArrayData(HistoryLong(t))) },
        c \in { Rejected(0), Fulfilled(400, NoData),
                Fulfilled(200, WrappedData(HistoryFar(t))) } }

\* The batch loop not entered.
IdleLoop ==
    [pc |-> "idle", n |-> 0, i |-> 0, stage |-> <<>>,
     pending |-> <<>>, issued |-> <<>>, waited |-> 0, gaps |-> <<>>,
     batches |-> 0, pauses |-> 0]
LoopIdle == loop = IdleLoop

\* The page before its first fetch: useState([]) for data and originalData
\* (42-43).  last, batch and prev record the callback that ran last, the
\* update map it was given and the two lists before it ran.
IdlePage ==
    [originalData |-> <<>>, data |-> <<>>, error |-> <<>>,
     last |-> "none", batch |-> <<>>,
     prev |-> [originalData |-> <<>>, data |-> <<>>]]
PageIdle == page = IdlePage

\* The hooks before they are mounted.  useBinanceWebSocket (28-33): no
\* socket, no timer, isConnected false, connectionError null.  The page's
\* sort state (47-48): (null, 'default').  useWatchlists (12-13) and
\* useColumnProfiles (13-15): empty lists, mounted false; storage is the
\* item of localStorage under the hook's key, <<>> when there is none.
IdleSock ==
    [mounted |-> FALSE, symbols |-> <<>>, cleanup |-> FALSE,
     sockets |-> <<>>, wsRef |-> 0, timers |-> <<>>, timerRef |-> 0,
     isConnected |-> FALSE, connectionError |-> <<>>,
     attempts |-> 0, failures |-> 0, changes |-> 0, last |-> "none",
     frame |-> <<>>, delivered |-> <<>>]
IdleSorting ==
    [sortColumn |-> <<>>, sortState |-> "default", data |-> <<>>,
     originalData |-> <<>>, fetches |-> <<>>,
     last |-> [op |-> "none", arg |-> FALSE]]
IdleWatch ==
    [mounted |-> FALSE, watchlists |-> <<>>, storage |-> <<>>, last |-> "none"]
IdleProf ==
    [mounted |-> FALSE, profiles |-> <<>>, activeProfileId |-> <<>>,
     storage |-> <<>>, storedActive |-> <<>>, timer |-> FALSE,
     last |-> [op |-> "none", arg |-> ""]]
HooksIdle ==
    sock = IdleSock /\ sorting = IdleSorting /\ watch = IdleWatch /\ prof = IdleProf

TaskIdle ==
    task = [pc |-> "idle", ticker |-> Ticker("AUSDT", "100", "20000"),
            kl |-> Rejected(0), kl4h |-> Rejected(0), ind |-> Null,
            oi |-> Rejected(0), hist |-> <<>>, asked |-> <<>>, t |-> TaskNow,
            result |-> Null]

\* The task has issued its two klines requests; they settle as kl and kl4h.
TaskInit ==
    \E ticker \in TaskTickers, kl \in DailyAnswers, kl4h \in FourHourAnswers :
        task = [pc |-> "klines", ticker |-> ticker, kl |-> kl, kl4h |-> kl4h,
                ind |-> Null, oi |-> Rejected(0), hist |-> <<>>, asked |-> <<>>,
                t |-> TaskNow, result |-> Null]

\* await Promise.allSettled([1d, 4h]) resumes: the task returns null (or
\* throws into its catch) before the open-interest block, or goes on to it.
TaskKlinesSettled ==
    /\ task.pc = "klines"
    /\ LET ind == BeforeOI(task.ticker, task.kl, task.kl4h)
       IN  task' = IF ind = Null
                   THEN [task EXCEPT !.pc = "settled", !.result = Null]
                   ELSE [task EXCEPT !.pc = "oi", !.ind = ind]
    /\ UNCHANGED <<handlerVars, retryVars, loopVars, pageVars, hookVars>>

\* The open-interest requests settle as oi and hist, and the task returns.
TaskOISettled ==
    /\ task.pc = "oi"
    /\ \E oi \in OIAnswers, hist \in HistAnswers(task.t) :
        task' = [task EXCEPT
                   !.pc = "settled", !.oi = oi, !.hist = hist,
                   !.asked = RequestedPeriods(oi, hist),
                   !.result = AfterOI(task.ind, task.ticker, task.kl,
                                      oi, hist, task.t)]
    /\ UNCHANGED <<handlerVars, retryVars, loopVars, pageVars, hookVars>>

HandlerIdle ==
    /\ cache = [present |-> FALSE]
    /\ now = 0
    /\ ticks = 0
    /\ req = <<>>

SymbolInit == TaskInit /\ HandlerIdle /\ RetryIdle /\ LoopIdle /\ PageIdle /\ HooksIdle
SymbolNext == TaskKlinesSettled \/ TaskOISettled
SpecSymbol == SymbolInit /\ [][SymbolNext]_vars

InitRetry == RetryInit /\ HandlerIdle /\ TaskIdle /\ LoopIdle /\ PageIdle /\ HooksIdle
SpecRetry == InitRetry /\ [][RetryNext]_vars

-----------------------------------------------------------------------------
(* The handler: cache check, universe, batches, merge, cache update *)

CACHE_TTL == 2 * 60 * 1000
BATCH_SIZE == 25
MaxPairs == 100

\* cache.get(cacheKey): undefined, or { data, timestamp }.
NoEntry == [present |-> FALSE]
Entry(data, timestamp) ==
    [present |-> TRUE, data |-> data, timestamp |-> timestamp]

\* res.status(status).json(body); body is a record array or { error }.
JsonArray(records) == [array |-> records]
JsonError(message) == [error |-> message]
Response(status, body) == [status |-> status, body |-> body]
NoResponse == Response(0, JsonError(""))

\* cached && (now - cached.timestamp) < CACHE_TTL
CacheHit(cached, t) == cached.present /\ t - cached.timestamp < CACHE_TTL

\* An axios error (status 0: no response) or an exception of the handler's
\* own code; msg is error.response.data.msg.
AxiosError(status, message) ==
    [ok |-> FALSE, status |-> status, msg |-> Missing, message |-> message]
TypeError(message) == AxiosError(0, message)

RateLimitBody ==
    JsonError("Too many requests. Please wait a moment and try again. The app uses WebSocket for live updates to minimize API calls.")

\* The handler's catch block.
OuterCatch(error) ==
    IF error.status = 429
    THEN LET rateLimitMsg == IF error.msg # Missing /\ error.msg # ""
                             THEN error.msg ELSE "Too many requests"
         IN  Response(429, JsonError(rateLimitMsg \o ". The app uses WebSocket for live price updates to minimize API calls. Please wait a moment before refreshing."))
    ELSE Response(500, JsonError("Failed to fetch crypto data: " \o error.message))

\* Every failure of the two requests handed to the handler's catch block.
FetchFailedGeneric(error) ==
    Response(500, JsonError("Failed to fetch crypto data: " \o error.message))
\* The catch around the exchangeInfo and the ticker request: 429 is answered
\* there, anything else is thrown on to the handler's catch block.
FetchFailed(error) ==
    IF error.status = 429 THEN Response(429, RateLimitBody) ELSE OuterCatch(error)

\* The answer to an empty merged record set, and the one it is not.
EmptyResultOkEmpty == Response(200, JsonArray(<<>>))
EmptyResult ==
    Response(500, JsonError("No data available after processing. This may be due to API rate limits or data validation issues."))

endsWith(s, suffix) ==
    Len(s) >= Len(suffix) /\ SubSeq(s, Len(s) - Len(suffix) + 1, Len(s)) = suffix

SymbolInfo(symbol, status, contractType) ==
    [symbol |-> symbol, status |-> status, contractType |-> contractType]

ActiveSymbols(symbols) ==
    { symbols[k].symbol : k \in
        { k \in DOMAIN symbols :
            /\ symbols[k].status = "TRADING"
            /\ symbols[k].contractType = "PERPETUAL"
            /\ endsWith(symbols[k].symbol, "USDT") } }

\* The sort with the comparator reversed: by ascending key.
SortAsc(seq, key) ==
    LET n == Len(seq)
        Before(j, k) ==
            \/ Gt(key[k], key[j])
            \/ ~Gt(key[j], key[k]) /\ j < k
        position == [k \in 1..n |-> Cardinality({ j \in 1..n : Before(j, k) }) + 1]
    IN  [p \in 1..n |-> seq[CHOOSE k \in 1..n : position[k] = p]]

\* Array.prototype.sort with the comparator (a, b) => key(b) - key(a), the
\* keys given element by element: by descending key, elements of equal key
\* in their original order.
SortDesc(seq, key) ==
    LET n == Len(seq)
        Before(j, k) ==
            \/ Gt(key[j], key[k])
            \/ ~Gt(key[k], key[j]) /\ j < k
        position == [k \in 1..n |-> Cardinality({ j \in 1..n : Before(j, k) }) + 1]
    IN  [p \in 1..n |-> seq[CHOOSE k \in 1..n : position[k] = p]]

Keep(ticker, activeSymbols) ==
    LET isActive == ticker.symbol \in activeSymbols
        hasVolume == Gt(parseFloat(ticker.quoteVolume), Num(0))
        hasPrice == Gt(parseFloat(ticker.lastPrice), Num(0))
        isValidPrice == ~isNaN(parseFloat(ticker.lastPrice))
    IN  isActive /\ hasVolume /\ hasPrice /\ isValidPrice

\* The first 100 of the feed, then sorted: not what the handler does.
usdtPairsSliceFirst(tickers, activeSymbols) ==
    LET IsKept(ticker) == Keep(ticker, activeSymbols)
        kept == SelectSeq(tickers, IsKept)
        first == SubSeq(kept, 1, Min({MaxPairs, Len(kept)}))
    IN  SortDesc(first, [k \in 1..Len(first) |-> parseFloat(first[k].quoteVolume)])
usdtPairs(tickers, activeSymbols) ==
    LET IsKept(ticker) == Keep(ticker, activeSymbols)
        kept == SelectSeq(tickers, IsKept)
        sorted == SortDesc(kept, [k \in 1..Len(kept) |-> parseFloat(kept[k].quoteVolume)])
    IN  SubSeq(sorted, 1, Min({MaxPairs, Len(sorted)}))

\* One element of Promise.allSettled's result for a batch.  The callback
\* catches whatever it throws, so its promise always fulfils.
Settled(value) == [status |-> "fulfilled", value |-> value]

\* The merge of a batch the handler does not do: one failed symbol voids it.
SuccessfulOrNone(batchResults) ==
    IF \E j \in 1..Len(batchResults) : batchResults[j].value = Null
    THEN <<>>
    ELSE [j \in 1..Len(batchResults) |-> batchResults[j].value]
\* batchResults.filter(fulfilled && value !== null).map(result => result.value)
Successful(batchResults) ==
    LET Kept(result) == result.status = "fulfilled" /\ result.value # Null
        kept == SelectSeq(batchResults, Kept)
    IN  [j \in 1..Len(kept) |-> kept[j].value]

\* cryptoDataResults.filter(data !== null), sorted by volume.
NotNull(data) == data # Null
CryptoData(cryptoDataResults) ==
    LET kept == SelectSeq(cryptoDataResults, NotNull)
    IN  SortDesc(kept, [k \in 1..Len(kept) |-> kept[k].volume])

(* What the upstream answers for one symbol, by name *)

World(kl, kl4h, oi, hist) == [kl |-> kl, kl4h |-> kl4h, oi |-> oi, hist |-> hist]

TwoCandles ==
    Fulfilled(200, ArrayData(<<Run(1, Flat("90", "1000")), Run(1, Flat("100", "1000"))>>))
HistoryUp(t) ==
    <<Fulfilled(200, ArrayData(HistoryNear(t))), Rejected(0), Rejected(0)>>
OIUp == Fulfilled(200, OIData("1500"))

Succeeding == {"good", "fineDown", "oiDown"}
Failing == {"coarse429", "coarse500", "emptyCandles", "invalidCandles", "throws"}

WorldOf(fate, t) ==
    CASE fate = "good" -> World(TwoCandles, TwoCandles, OIUp, HistoryUp(t))
      [] fate = "fineDown" -> World(TwoCandles, Rejected(500), OIUp, HistoryUp(t))
      [] fate = "oiDown" ->
            World(TwoCandles, TwoCandles, Rejected(429),
                  <<Rejected(429), Rejected(429), Rejected(429)>>)
      [] fate = "coarse429" -> World(Rejected(429), TwoCandles, OIUp, HistoryUp(t))
      [] fate = "coarse500" -> World(Rejected(500), TwoCandles, OIUp, HistoryUp(t))
      [] fate = "emptyCandles" ->
            World(Fulfilled(200, ArrayData(<<>>)), TwoCandles, OIUp, HistoryUp(t))
      [] fate = "invalidCandles" ->
            World(Fulfilled(200, ArrayData(<<Run(1, Flat("abc", "1000")),
                                             Run(1, Flat("-5", "1000"))>>)),
                  TwoCandles, OIUp, HistoryUp(t))
      [] fate = "throws" ->
            World(Fulfilled(200, ArrayData(<<Run(1, Null), Run(1, Flat("100", "1000"))>>)),
                  TwoCandles, OIUp, HistoryUp(t))

\* A batch's fates: one for its first symbol, one for all the others.
Rule(first, rest) == [first |-> first, rest |-> rest]
FatesOf(rule, n) == [j \in 1..n |-> IF j = 1 THEN rule.first ELSE rule.rest]

(* One request *)

\* Requests arrive while fewer than MaxConcurrent others are being handled.
MaxConcurrent == 2

\* pc, what the handler holds (active, pairs, i, results, resp), and for the
\* properties: the arrival time, the cache entry seen on arrival, the runs
\* in progress on arrival, the upstream endpoints requested so far, each
\* symbol's fate, what failed, the cache entry the request has written, and
\* the two payloads received (listing: exchangeInfo symbols, feed: tickers),
\* the error thrown while resolving the universe, if any, and the responses
\* sent.
IdleRequest ==
    [pc |-> "idle", at |-> 0, seen |-> NoEntry, during |-> {}, upstream |-> {},
     listing |-> <<>>, feed |-> <<>>, thrown |-> <<>>,
     active |-> {}, pairs |-> <<>>, i |-> 0, results |-> <<>>, fates |-> <<>>,
     failure |-> "none", resp |-> NoResponse, wrote |-> NoEntry, sent |-> <<>>]

InProgress == { r \in DOMAIN req : req[r].pc \in {"exchangeInfo", "ticker", "batches"} }

\* The handler returns without a call of res.json.
AnsweredSilently(q, resp, failure) ==
    [q EXCEPT !.pc = "done", !.resp = resp, !.failure = failure]
\* res.status(..).json(..) and the return that follows it; sent lists the
\* bodies handed to res.json so far.
Answered(q, resp, failure) ==
    [q EXCEPT !.pc = "done", !.resp = resp, !.failure = failure,
              !.sent = Append(@, resp)]
Threw(q, error) == [q EXCEPT !.thrown = <<error>>]

\* The handler is entered: the cache check, and on a miss the exchangeInfo
\* request is issued.
Arrive(r) ==
    /\ req[r].pc = "idle"
    /\ IF r = 1 THEN TRUE ELSE req[r - 1].pc # "idle"
    /\ Cardinality(InProgress) < MaxConcurrent
    /\ LET cached == cache
           q == [req[r] EXCEPT !.at = now, !.seen = cached, !.during = InProgress]
       IN  req' = [req EXCEPT ![r] =
                IF CacheHit(cached, now)
                THEN Answered(q, Response(200, JsonArray(cached.data)), "none")
                ELSE [q EXCEPT !.pc = "exchangeInfo", !.upstream = {"exchangeInfo"}]]
    /\ UNCHANGED <<cache, now, ticks, retryVars, symbolVars, loopVars, pageVars, hookVars>>

\* The exchangeInfo request settles; on success the ticker request is issued.
ExchangeInfoSettled(r, answers) ==
    /\ req[r].pc = "exchangeInfo"
    /\ \E ans \in answers :
        req' = [req EXCEPT ![r] =
            IF ~ans.ok
            THEN Answered(Threw(@, ans), FetchFailed(ans), "exchangeInfo")
            ELSE IF ans.data.kind # "info"
            THEN LET error == TypeError("Cannot read properties of undefined (reading 'filter')")
                 IN  Answered(Threw(@, error), OuterCatch(error), "exchangeInfo")
            ELSE [@ EXCEPT !.pc = "ticker",
                           !.listing = ans.data.symbols,
                           !.active = ActiveSymbols(ans.data.symbols),
                           !.upstream = @ \cup {"ticker"}]]
    /\ UNCHANGED <<cache, now, ticks, retryVars, symbolVars, loopVars, pageVars, hookVars>>

\* The ticker request settles; on success the universe is resolved and the
\* first batch's requests are issued.  An empty universe skips the loop and
\* is answered at once.
TickerSettled(r, answers) ==
    /\ req[r].pc = "ticker"
    /\ \E ans \in answers :
        req' = [req EXCEPT ![r] =
            IF ~ans.ok
            THEN Answered(Threw(@, ans), FetchFailed(ans), "ticker")
            ELSE IF ans.data.kind # "tickers"
            THEN LET error == TypeError("tickersResponse.data.filter is not a function")
                 IN  Answered(Threw(@, error), OuterCatch(error), "ticker")
            ELSE LET pairs == usdtPairs(ans.data.tickers, req[r].active)
                 IN  IF Len(pairs) = 0
                     THEN Answered([@ EXCEPT !.feed = ans.data.tickers],
                                   EmptyResult, "empty")
                     ELSE [@ EXCEPT !.pc = "batches", !.pairs = pairs, !.i = 0,
                                    !.feed = ans.data.tickers,
                                    !.upstream = @ \cup {"klines"}]]
    /\ UNCHANGED <<cache, now, ticks, retryVars, symbolVars, loopVars, pageVars, hookVars>>

\* The batch at q.i, and what allSettled gives for it under the fates.
BatchOf(q) == SubSeq(q.pairs, q.i + 1, Min({q.i + BATCH_SIZE, Len(q.pairs)}))
BatchResults(batch, fates, t) ==
    [j \in 1..Len(batch) |->
        LET w == WorldOf(fates[j], t)
        IN  Settled(SymbolTask(batch[j], w.kl, w.kl4h, w.oi, w.hist, t))]

\* cryptoDataResults.push(...successfulResults)
Merged(q, fates, successfulResults) ==
    [q EXCEPT !.results = @ \o successfulResults,
              !.fates = @ \o fates,
              !.upstream = IF Len(successfulResults) > 0
                           THEN @ \cup {"openInterest"} ELSE @]

\* After the merge: the delay and the next batch, or the end of the loop:
\* filter, sort, the empty check, cache.set and the answer.
AfterBatchCacheEarly(merged, cached, t) ==
    LET cryptoData == CryptoData(merged.results)
    IN  IF merged.i + BATCH_SIZE < Len(merged.pairs)
        THEN [req |-> [merged EXCEPT !.i = @ + BATCH_SIZE],
              cache |-> IF Len(cryptoData) = 0 THEN cached ELSE Entry(cryptoData, t)]
        ELSE IF Len(cryptoData) = 0
        THEN [req |-> Answered(merged, EmptyResult, "empty"), cache |-> cached]
        ELSE [req |-> [Answered(merged, Response(200, JsonArray(cryptoData)), "none")
                          EXCEPT !.wrote = Entry(cryptoData, t)],
              cache |-> Entry(cryptoData, t)]
\* cache.set placed before the empty check.
AfterBatchCacheEmpty(merged, cached, t) ==
    LET cryptoData == CryptoData(merged.results)
    IN  IF merged.i + BATCH_SIZE < Len(merged.pairs)
        THEN [req |-> [merged EXCEPT !.i = @ + BATCH_SIZE], cache |-> cached]
        ELSE IF Len(cryptoData) = 0
        THEN [req |-> Answered(merged, EmptyResult, "empty"),
              cache |-> Entry(cryptoData, t)]
        ELSE [req |-> [Answered(merged, Response(200, JsonArray(cryptoData)), "none")
                          EXCEPT !.wrote = Entry(cryptoData, t)],
              cache |-> Entry(cryptoData, t)]
AfterBatch(merged, cached, t) ==
    LET cryptoData == CryptoData(merged.results)
    IN  IF merged.i + BATCH_SIZE < Len(merged.pairs)
        THEN [req |-> [merged EXCEPT !.i = @ + BATCH_SIZE], cache |-> cached]
        ELSE IF Len(cryptoData) = 0
        THEN [req |-> Answered(merged, EmptyResult, "empty"), cache |-> cached]
        ELSE [req |-> [Answered(merged, Response(200, JsonArray(cryptoData)), "none")
                          EXCEPT !.wrote = Entry(cryptoData, t)],
              cache |-> Entry(cryptoData, t)]

\* A write that replaces the records and leaves the timestamp of the
\* entry already there.
PublishRecordsOnly(r, after) ==
    /\ req' = [req EXCEPT ![r] = after.req]
    /\ cache' = IF cache.present /\ after.cache.present
                THEN Entry(after.cache.data, cache.timestamp)
                ELSE after.cache
Publish(r, after) ==
    /\ req' = [req EXCEPT ![r] = after.req]
    /\ cache' = after.cache

\* await Promise.allSettled(batchPromises) resumes for the batch at i.
BatchSettled(r, rules) ==
    /\ req[r].pc = "batches"
    /\ \E rule \in rules :
        Publish(r,
            AfterBatch(
                Merged(req[r], FatesOf(rule, Len(BatchOf(req[r]))),
                       Successful(BatchResults(BatchOf(req[r]),
                                               FatesOf(rule, Len(BatchOf(req[r]))),
                                               now))),
                cache, now))
    /\ UNCHANGED <<now, ticks, retryVars, symbolVars, loopVars, pageVars, hookVars>>

(* Spec: requests arriving one after another while earlier ones run *)

MaxReq == 4
MaxTicks == 2

\* Time passes: first to the last instant an entry written at 0 is fresh,
\* then millisecond by millisecond.
TickStep(n) == IF n = 0 THEN CACHE_TTL - 1 ELSE 1
Tick ==
    /\ ticks < MaxTicks
    /\ now' = now + TickStep(ticks)
    /\ ticks' = ticks + 1
    /\ UNCHANGED <<cache, req, retryVars, symbolVars, loopVars, pageVars, hookVars>>

InfoData(symbols) == [kind |-> "info", symbols |-> symbols]
TickersData(tickers) == [kind |-> "tickers", tickers |-> tickers]
Ok(data) == [ok |-> TRUE, data |-> data]

ManySymbols ==
    <<"S01USDT", "S02USDT", "S03USDT", "S04USDT", "S05USDT", "S06USDT",
      "S07USDT", "S08USDT", "S09USDT", "S10USDT", "S11USDT", "S12USDT",
      "S13USDT", "S14USDT", "S15USDT", "S16USDT", "S17USDT", "S18USDT",
      "S19USDT", "S20USDT", "S21USDT", "S22USDT", "S23USDT", "S24USDT",
      "S25USDT", "S26USDT">>

ListedSymbols ==
    <<SymbolInfo("AUSDT", "TRADING", "PERPETUAL"),
      SymbolInfo("BUSDT", "TRADING", "PERPETUAL"),
      SymbolInfo("CUSDT", "SETTLING", "PERPETUAL"),
      SymbolInfo("DUSDT", "TRADING", "CURRENT_QUARTER"),
      SymbolInfo("EUSD", "TRADING", "PERPETUAL")>>
    \o [k \in 1..Len(ManySymbols) |-> SymbolInfo(ManySymbols[k], "TRADING", "PERPETUAL")]

TwoTickers ==
    <<Ticker("AUSDT", "100", "20000"), Ticker("BUSDT", "110", "30000")>>

ExchangeInfoAnswers ==
    { Ok(InfoData(ListedSymbols)),
      AxiosError(500, "Request failed with status code 500") }
TickerAnswers ==
    { Ok(TickersData(TwoTickers)) }
BatchRules ==
    { Rule("good", "good"), Rule("good", "coarse500") }

HandlerInit ==
    /\ cache = NoEntry
    /\ now = 0
    /\ ticks = 0
    /\ req = [r \in 1..MaxReq |-> IdleRequest]

Init == HandlerInit /\ RetryIdle /\ TaskIdle /\ LoopIdle /\ PageIdle /\ HooksIdle
RequestArrives == \E r \in DOMAIN req : Arrive(r)
ExchangeInfoAnswered == \E r \in DOMAIN req : ExchangeInfoSettled(r, ExchangeInfoAnswers)
TickerAnswered == \E r \in DOMAIN req : TickerSettled(r, TickerAnswers)
BatchAnswered == \E r \in DOMAIN req : BatchSettled(r, BatchRules)
Next ==
    \/ RequestArrives
    \/ ExchangeInfoAnswered
    \/ TickerAnswered
    \/ BatchAnswered
    \/ Tick
Spec == Init /\ [][Next]_vars

\* SpecCache: three requests, in every interleaving the handler allows.
CacheInit ==
    /\ cache = NoEntry
    /\ now = 0
    /\ ticks = 0
    /\ req = <<IdleRequest, IdleRequest, IdleRequest>>
InitCache == CacheInit /\ RetryIdle /\ TaskIdle /\ LoopIdle /\ PageIdle /\ HooksIdle
SpecCache == InitCache /\ [][Next]_vars

(* SpecRun: the first request after start-up, alone *)

MixedTickers ==
    <<Ticker("CUSDT", "100", "30000"), Ticker("AUSDT", "100", "20000"),
      Ticker("DUSDT", "100", "30000"), Ticker("EUSD", "100", "30000"),
      Ticker("BUSDT", "110", "30000"), Ticker("FUSDT", "100", "30000"),
      Ticker("S01USDT", "100", "9999")>>
UnusableTickers ==
    <<Ticker("AUSDT", "0", "20000"), Ticker("BUSDT", "abc", "30000"),
      Ticker("S01USDT", "100", "0")>>
\* A feed that carries one symbol twice.
RepeatedTickers ==
    <<Ticker("AUSDT", "100", "20000"), Ticker("BUSDT", "110", "30000"),
      Ticker("AUSDT", "110", "30000")>>
ManyTickers ==
    [k \in 1..Len(ManySymbols) |-> Ticker(ManySymbols[k], "100", "20000")]

\* A feed of more than 100 eligible symbols: the last has the highest volume,
\* the middle one the lowest, and a symbol the listing marks SETTLING is
\* in the feed with the highest volume too.
FeedSize == 102
Digits == <<"0", "1", "2", "3", "4", "5", "6", "7", "8", "9">>
FeedSymbol(k) ==
    "T" \o Digits[((k \div 100) % 10) + 1] \o Digits[((k \div 10) % 10) + 1]
        \o Digits[(k % 10) + 1] \o "USDT"
LargeListing ==
    <<SymbolInfo("CUSDT", "SETTLING", "PERPETUAL")>>
    \o [k \in 1..FeedSize |-> SymbolInfo(FeedSymbol(k), "TRADING", "PERPETUAL")]
LargeFeed ==
    <<Ticker("CUSDT", "100", "30000")>>
    \o [k \in 1..FeedSize |->
            Ticker(FeedSymbol(k), "100",
                   IF k = FeedSize THEN "30000"
                   ELSE IF k = FeedSize \div 2 THEN "10000" ELSE "20000")]

RunExchangeInfoAnswers ==
    ExchangeInfoAnswers \cup
    { Ok(NoData), Ok(InfoData(<<>>)), Ok(InfoData(LargeListing)),
      AxiosError(429, "Request failed with status code 429"),
      AxiosError(0, "timeout of 10000ms exceeded") }
RunTickerAnswers ==
    TickerAnswers \cup
    { Ok(NoData), Ok(TickersData(<<>>)), Ok(TickersData(MixedTickers)),
      Ok(TickersData(UnusableTickers)), Ok(TickersData(ManyTickers)),
      Ok(TickersData(LargeFeed)), Ok(TickersData(RepeatedTickers)),
      AxiosError(429, "Request failed with status code 429"),
      AxiosError(500, "Request failed with status code 500"),
      AxiosError(0, "timeout of 10000ms exceeded") }
RunBatchRules ==
    { Rule(first, rest) : first \in Succeeding \cup Failing,
                          rest \in {"good", "coarse429", "throws"} }

\* The fates drawn for a universe of more than two batches: all good, or
\* each batch's first symbol rate-limited.
LargeRunRules ==
    { Rule("good", "good"), Rule("coarse429", "good") }
RunRulesFor(q) ==
    IF Len(q.pairs) > 2 * BATCH_SIZE THEN LargeRunRules ELSE RunBatchRules

RunInit ==
    /\ cache = NoEntry
    /\ now = 0
    /\ ticks = 0
    /\ req = <<IdleRequest>>

InitRun == RunInit /\ RetryIdle /\ TaskIdle /\ LoopIdle /\ PageIdle /\ HooksIdle
RunArrives == Arrive(1)
RunExchangeInfoAnswered == ExchangeInfoSettled(1, RunExchangeInfoAnswers)
RunTickerAnswered == TickerSettled(1, RunTickerAnswers)
RunBatchAnswered == BatchSettled(1, RunRulesFor(req[1]))
RunNext ==
    \/ RunArrives
    \/ RunExchangeInfoAnswered
    \/ RunTickerAnswered
    \/ RunBatchAnswered
SpecRun == InitRun /\ [][RunNext]_vars

(* SpecPaths: two requests along every path of the handler *)

\* Each await of the two requests is answered so that every return and
\* every throw of the handler is taken: the cache hit, 429 and other
\* failures of either universe request, a payload that is not the expected
\* one, an empty universe, a run whose every symbol fails, and success.
PathExchangeInfoAnswers ==
    ExchangeInfoAnswers \cup
    { Ok(NoData), AxiosError(429, "Request failed with status code 429") }
PathTickerAnswers ==
    TickerAnswers \cup
    { Ok(NoData), Ok(TickersData(UnusableTickers)),
      AxiosError(429, "Request failed with status code 429"),
      AxiosError(0, "timeout of 10000ms exceeded") }
PathBatchRules ==
    BatchRules \cup { Rule("coarse429", "coarse429"), Rule("throws", "invalidCandles") }

PathInit ==
    /\ cache = NoEntry
    /\ now = 0
    /\ ticks = 0
    /\ req = <<IdleRequest, IdleRequest>>
InitPaths == PathInit /\ RetryIdle /\ TaskIdle /\ LoopIdle /\ PageIdle /\ HooksIdle
PathExchangeInfoAnswered ==
    \E r \in DOMAIN req : ExchangeInfoSettled(r, PathExchangeInfoAnswers)
PathTickerAnswered == \E r \in DOMAIN req : TickerSettled(r, PathTickerAnswers)
PathBatchAnswered == \E r \in DOMAIN req : BatchSettled(r, PathBatchRules)
PathNext ==
    \/ RequestArrives
    \/ PathExchangeInfoAnswered
    \/ PathTickerAnswered
    \/ PathBatchAnswered
    \/ Tick
SpecPaths == InitPaths /\ [][PathNext]_vars

-----------------------------------------------------------------------------
(* The batch loop at the grain of single requests (1522-1571, 2028-2042) *)

\* loop holds: n, the length of usdtPairs; i, the loop variable; per symbol
\* its task's stage ("waiting": not started, "klines": awaiting the 1d and
\* 4h answers, "oi": in the open-interest block, "settled"), the klines
\* requests still unanswered and those issued so far; the ms waited
\* since the last allSettled resumed, its value at each later batch's start,
\* and the batches started and pauses taken.

BATCH_DELAY == 100
Window == 2
LoopSizes == {1, BATCH_SIZE, 2 * BATCH_SIZE + 1}

InFlight(l) == { k \in 1..l.n : l.stage[k] \in {"klines", "oi"} }

\* batch = usdtPairs.slice(i, i + BATCH_SIZE); batch.map(async ticker => ...):
\* every task of the batch runs to its first await, where both klines
\* requests have been issued (1544-1571).
StartBatch(l) ==
    LET batch == (l.i + 1)..Min({l.i + BATCH_SIZE, l.n})
    IN  [l EXCEPT !.pc = "batch",
                  !.stage = [k \in 1..l.n |-> IF k \in batch THEN "klines" ELSE @[k]],
                  !.pending = [k \in 1..l.n |-> IF k \in batch THEN {"1d", "4h"} ELSE @[k]],
                  !.issued = [k \in 1..l.n |-> IF k \in batch THEN {"1d", "4h"} ELSE @[k]],
                  !.gaps = IF l.batches = 0 THEN @ ELSE Append(@, l.waited),
                  !.waited = 0,
                  !.batches = @ + 1]

\* if (i + BATCH_SIZE < usdtPairs.length) await delay(BATCH_DELAY)
MorePairsAlways(i, n) == TRUE
MorePairs(i, n) == i + BATCH_SIZE < n

\* for (...; i < usdtPairs.length; i += BATCH_SIZE)
NextIteration(l) ==
    LET stepped == [l EXCEPT !.i = @ + BATCH_SIZE]
    IN  IF stepped.i < stepped.n THEN StartBatch(stepped)
        ELSE [stepped EXCEPT !.pc = "done"]

\* A task has settled: when it was the batch's last, allSettled resumes,
\* the results are merged, and the loop pauses or goes on.
AfterSettle(l) ==
    IF InFlight(l) # {} THEN l
    ELSE IF MorePairs(l.i, l.n) THEN [l EXCEPT !.pc = "pause"]
    ELSE NextIteration(l)

\* The tasks the upstream answers next: the first Window of those in
\* flight.
MayStep(l) ==
    { k \in InFlight(l) : Cardinality({ j \in InFlight(l) : j < k }) < Window }

LoopInit ==
    \E n \in LoopSizes :
        loop = StartBatch([IdleLoop EXCEPT
                             !.n = n,
                             !.stage = [k \in 1..n |-> "waiting"],
                             !.pending = [k \in 1..n |-> {}],
                             !.issued = [k \in 1..n |-> {}]])

\* One klines request of a task settles.  With both settled the task's
\* await resumes: it returns null, or enters the open-interest block.
KlinesRequestSettled ==
    /\ loop.pc = "batch"
    /\ \E k \in MayStep(loop) :
        /\ loop.stage[k] = "klines"
        /\ \E which \in loop.pending[k] :
            LET left == loop.pending[k] \ {which}
                answered == [loop EXCEPT !.pending[k] = left]
            IN  IF left # {}
                THEN loop' = answered
                ELSE \/ loop' = AfterSettle([answered EXCEPT !.stage[k] = "settled"])
                     \/ loop' = [answered EXCEPT !.stage[k] = "oi"]
    /\ UNCHANGED <<handlerVars, retryVars, symbolVars, pageVars, hookVars>>

\* The open-interest block of a task ends and the task returns.
TaskSettled ==
    /\ loop.pc = "batch"
    /\ \E k \in MayStep(loop) :
        /\ loop.stage[k] = "oi"
        /\ loop' = AfterSettle([loop EXCEPT !.stage[k] = "settled"])
    /\ UNCHANGED <<handlerVars, retryVars, symbolVars, pageVars, hookVars>>

\* await delay(BATCH_DELAY) resumes, and the loop goes on.
DelayElapsed ==
    /\ loop.pc = "pause"
    /\ loop' = NextIteration([loop EXCEPT !.waited = @ + BATCH_DELAY,
                                          !.pauses = @ + 1])
    /\ UNCHANGED <<handlerVars, retryVars, symbolVars, pageVars, hookVars>>

InitBatch == LoopInit /\ HandlerIdle /\ RetryIdle /\ TaskIdle /\ PageIdle /\ HooksIdle
BatchNext == KlinesRequestSettled \/ TaskSettled \/ DelayElapsed
SpecBatch == InitBatch /\ [][BatchNext]_vars

-----------------------------------------------------------------------------
(* SpecPage: the page that holds the snapshot *)

\* The fields handlePriceUpdate may write, and all the others of a record
\* (interface CryptoData, 14-36).
LiveFields == {"currentPrice", "volume"}
IndicatorFields ==
    {"dailyReturn", "weeklyReturn", "monthlyReturn",
     "vwap7d", "vwapDistance7d", "vwap30d", "vwapDistance30d",
     "vwap90d", "vwapDistance90d", "vwap365d", "vwapDistance365d",
     "ema2004h", "ema200Distance4h", "ema2001d", "ema200Distance1d",
     "zScore", "oiChange24h", "oiChange7d"}

\* A record of a snapshot; k makes the indicator values of different
\* records and of different snapshots differ.
Coin(symbol, currentPrice, volume, k) ==
    [symbol |-> symbol, currentPrice |-> Num(currentPrice), volume |-> Num(volume),
     dailyReturn |-> Num(k), weeklyReturn |-> Num(k + 1), monthlyReturn |-> Num(-k),
     vwap7d |-> Num(currentPrice + k), vwapDistance7d |-> Num(k + 2),
     vwap30d |-> Num(currentPrice + 2 * k), vwapDistance30d |-> Num(k + 3),
     vwap90d |-> Num(currentPrice - k), vwapDistance90d |-> Num(k + 4),
     vwap365d |-> Num(currentPrice), vwapDistance365d |-> Num(0),
     ema2004h |-> Num(currentPrice + 1), ema200Distance4h |-> Num(k + 5),
     ema2001d |-> Num(currentPrice - 1), ema200Distance1d |-> Num(k + 6),
     zScore |-> IF k % 2 = 0 THEN Absent ELSE Num(k),
     oiChange24h |-> IF k % 3 = 0 THEN Absent ELSE Num(10 * k),
     oiChange7d |-> IF k % 3 = 0 THEN Absent ELSE Num(-10 * k)]

\* One entry of the update map (PriceUpdate, useBinanceWebSocket.ts 16-21);
\* Absent is a field left undefined.
PriceUpdate(symbol, currentPrice, volume, priceChangePercent) ==
    [symbol |-> symbol, currentPrice |-> currentPrice, volume |-> volume,
     priceChangePercent |-> priceChangePercent]

\* prevData.map(coin => update ? {...coin, currentPrice?, volume?} : coin)
\* (150-166, 169-183); updates is the Map, a function on its keys.
handlePriceUpdateWithReturn(prevData, updates) ==
    [k \in 1..Len(prevData) |->
        LET coin == prevData[k]
        IN  IF coin.symbol \in DOMAIN updates
            THEN LET update == updates[coin.symbol]
                 IN  [coin EXCEPT
                        !.currentPrice = IF update.currentPrice # Absent
                                         THEN update.currentPrice ELSE @,
                        !.volume = IF update.volume # Absent THEN update.volume ELSE @,
                        !.dailyReturn = IF update.priceChangePercent # Absent
                                        THEN update.priceChangePercent ELSE @]
            ELSE coin]
handlePriceUpdate(prevData, updates) ==
    [k \in 1..Len(prevData) |->
        LET coin == prevData[k]
        IN  IF coin.symbol \in DOMAIN updates
            THEN LET update == updates[coin.symbol]
                 IN  [coin EXCEPT
                        !.currentPrice = IF update.currentPrice # Absent
                                         THEN update.currentPrice ELSE @,
                        !.volume = IF update.volume # Absent THEN update.volume ELSE @]
            ELSE coin]

Ran(last, batch) ==
    [page EXCEPT !.last = last, !.batch = batch,
                 !.prev = [originalData |-> page.originalData, data |-> page.data]]

\* fetchData (112-146): an ok response carrying an array replaces both
\* lists and clears the error; anything else only sets the error.
FetchSettled(answers) ==
    /\ \E ans \in answers :
        page' =
            IF ans.st # "fulfilled"
            THEN [Ran("fetchFailed", <<>>) EXCEPT !.error = <<"Failed to fetch">>]
            ELSE IF ~(ans.resp.status \in 200..299)
            THEN [Ran("fetchFailed", <<>>) EXCEPT
                    !.error = <<IF "error" \in DOMAIN ans.resp.body
                                THEN ans.resp.body.error ELSE "Failed to fetch data">>]
            ELSE IF "array" \notin DOMAIN ans.resp.body
            THEN [Ran("fetchFailed", <<>>) EXCEPT
                    !.error = <<IF "error" \in DOMAIN ans.resp.body
                                THEN ans.resp.body.error
                                ELSE "Invalid data format received">>]
            ELSE [Ran("fetch", <<>>) EXCEPT
                    !.originalData = ans.resp.body.array,
                    !.data = ans.resp.body.array,
                    !.error = <<>>]
    /\ UNCHANGED <<handlerVars, retryVars, symbolVars, loopVars, hookVars>>

\* handlePriceUpdate (149-186) called with one update map.
PriceUpdateArrives(batches) ==
    /\ \E updates \in batches :
        page' = [Ran("tick", updates) EXCEPT
                    !.originalData = handlePriceUpdate(@, updates),
                    !.data = handlePriceUpdate(@, updates)]
    /\ UNCHANGED <<handlerVars, retryVars, symbolVars, loopVars, hookVars>>

(* The snapshots and update maps of SpecPage *)

SnapshotFirst ==
    <<Coin("BUSDT", 110, 30000, 1), Coin("AUSDT", 100, 20000, 2),
      Coin("CUSDT", 5, 15000, 3)>>
SnapshotSecond ==
    <<Coin("AUSDT", 101, 25000, 4), Coin("DUSDT", 7, 12000, 5)>>
\* A snapshot that carries one symbol twice.
SnapshotRepeated ==
    <<Coin("AUSDT", 110, 30000, 6), Coin("BUSDT", 110, 30000, 7),
      Coin("AUSDT", 100, 20000, 8)>>

PageAnswers ==
    { [st |-> "fulfilled", resp |-> Response(200, JsonArray(SnapshotFirst))],
      [st |-> "fulfilled", resp |-> Response(200, JsonArray(SnapshotSecond))],
      [st |-> "fulfilled", resp |-> Response(200, JsonArray(SnapshotRepeated))],
      [st |-> "fulfilled", resp |-> EmptyResult],
      [st |-> "fulfilled", resp |-> Response(200, [error |-> "Internal error"])],
      [st |-> "rejected"] }

UpdateBatches ==
    { [s \in {"AUSDT"} |-> PriceUpdate(s, Num(105), Num(21000), Num(5))],
      [s \in {"AUSDT"} |-> PriceUpdate(s, Num(106), Absent, Absent)],
      [s \in {"BUSDT"} |-> PriceUpdate(s, Absent, Num(10000), Num(-1))],
      [s \in {"AUSDT", "BUSDT"} |-> PriceUpdate(s, Num(107), Num(40000), Num(2))],
      [s \in {"CUSDT", "ZUSDT"} |-> PriceUpdate(s, Absent, Absent, Num(3))],
      [s \in {"ZUSDT"} |-> PriceUpdate(s, Num(1), Num(50000), Absent)] }

PageInit == page = IdlePage
InitPage == PageInit /\ HandlerIdle /\ RetryIdle /\ TaskIdle /\ LoopIdle /\ HooksIdle
PageFetchSettled == FetchSettled(PageAnswers)
PagePriceUpdate == PriceUpdateArrives(UpdateBatches)
PageNext == PageFetchSettled \/ PagePriceUpdate
SpecPage == InitPage /\ [][PageNext]_vars

-----------------------------------------------------------------------------
(* useBinanceWebSocket  (src/hooks/useBinanceWebSocket.ts) *)

MaxSockets == 4        \* WebSockets constructed in one behaviour
MaxFailures == 1       \* constructions that throw
MaxChanges == 2        \* changes of the symbols prop after the mount
CloseReconnectDelay == 3000
CatchReconnectDelay == 5000

\* String.prototype.toLowerCase on ASCII text.
UpperCase == "ABCDEFGHIJKLMNOPQRSTUVWXYZ"
LowerCase == "abcdefghijklmnopqrstuvwxyz"
LowerChar(c) ==
    IF \E i \in 1..Len(UpperCase) : SubSeq(UpperCase, i, i) = c
    THEN LET i == CHOOSE i \in 1..Len(UpperCase) : SubSeq(UpperCase, i, i) = c
         IN  SubSeq(LowerCase, i, i)
    ELSE c
RECURSIVE toLowerCase(_)
toLowerCase(s) ==
    IF Len(s) = 0 THEN s
    ELSE LowerChar(SubSeq(s, 1, 1)) \o toLowerCase(SubSeq(s, 2, Len(s)))

\* event.data is text: either the JSON text of a value or text that is not
\* JSON.  JSON.parse gives the value or throws.
JsonText(value) == [json |-> value]
NotJson(text) == [text |-> text]
JSONparse(data) ==
    IF "json" \in DOMAIN data
    THEN [threw |-> FALSE, value |-> data.json]
    ELSE [threw |-> TRUE]
TickerArray(items) == [kind |-> "array", items |-> items]
JsonObject == [kind |-> "object"]
\* One element of the !ticker@arr stream (BinanceTickerUpdate, 3-14), with
\* the fields the handler reads.
TickerUpdate(s, c, q, P) == [s |-> s, c |-> c, q |-> q, P |-> P]

\* updates.set(key, value) on the Map, a function on its keys.
MapSet(map, key, value) ==
    [k \in DOMAIN map \cup {key} |-> IF k = key THEN value ELSE map[k]]
EmptyMap == <<>>

\* The loop of ws.onmessage (76-92) from element k on; a ticker without
\* the field s makes symbol.toLowerCase() throw.
RECURSIVE CollectUpdates(_, _, _, _)
CollectUpdates(tickers, k, symbolsSet, updates) ==
    IF k > Len(tickers) THEN [threw |-> FALSE, updates |-> updates]
    ELSE LET ticker == tickers[k]
             symbol == ticker.s
         IN  IF symbol = Missing THEN [threw |-> TRUE, updates |-> updates]
             ELSE IF toLowerCase(symbol) \in symbolsSet
             THEN LET price == parseFloat(ticker.c)
                      volume == parseFloat(ticker.q)
                  IN  IF ~isNaN(price) /\ ~isNaN(volume)
                      THEN CollectUpdates(tickers, k + 1, symbolsSet,
                               MapSet(updates, symbol,
                                      PriceUpdate(symbol, price, volume,
                                                  parseFloat(ticker.P))))
                      ELSE CollectUpdates(tickers, k + 1, symbolsSet, updates)
             ELSE CollectUpdates(tickers, k + 1, symbolsSet, updates)

\* ws.onmessage (66-101): the calls of onUpdateRef.current it makes, each
\* with its argument.  Every throw is caught and logged (98-100).
onmessageAlways(data, symbols) ==
    LET parsed == JSONparse(data)
        symbolsSet == { toLowerCase(symbols[i]) : i \in 1..Len(symbols) }
    IN  IF parsed.threw THEN <<>>
        ELSE IF parsed.value.kind # "array" THEN <<>>
        ELSE LET r == CollectUpdates(parsed.value.items, 1, symbolsSet, EmptyMap)
             IN  IF r.threw THEN <<>> ELSE <<r.updates>>
onmessage(data, symbols) ==
    LET parsed == JSONparse(data)
        symbolsSet == { toLowerCase(symbols[i]) : i \in 1..Len(symbols) }
    IN  IF parsed.threw THEN <<>>
        ELSE IF parsed.value.kind # "array" THEN <<>>
        ELSE LET r == CollectUpdates(parsed.value.items, 1, symbolsSet, EmptyMap)
             IN  IF r.threw THEN <<>>
                 ELSE IF Cardinality(DOMAIN r.updates) > 0 THEN <<r.updates>>
                 ELSE <<>>

\* sock holds: mounted; symbols, the prop and symbolsRef.current (36-38);
\* cleanup, whether the last run of the effect returned its cleanup
\* (134-150); sockets, every WebSocket constructed, each with its
\* readyState, the timer whose callback constructed it (0: the effect), how
\* it came to close; wsRef (0: null); timers, every setTimeout call, each
\* with its delay, the socket whose onclose made it (0: the catch), the
\* number of connection attempts made before it, and its state; timerRef, reconnectTimeoutRef.current (0: null); isConnected;
\* connectionError; attempts, the calls of connect that went past the
\* guard at 44; failures and changes, which bound the model; last, the
\* handler that ran last; frame and delivered, the last message and the
\* calls of onUpdate it caused.
Socket(by) ==
    [readyState |-> "CONNECTING", by |-> by, closedBy |-> "none"]
Timer(delay, for, at) == [delay |-> delay, for |-> for, at |-> at, state |-> "pending"]

setIsConnected(h, value) == IF h.mounted THEN [h EXCEPT !.isConnected = value] ELSE h
setConnectionError(h, value) ==
    IF h.mounted THEN [h EXCEPT !.connectionError = value] ELSE h

clearTimeout(h, t) ==
    IF t # 0 /\ h.timers[t].state = "pending"
    THEN [h EXCEPT !.timers[t].state = "cleared"] ELSE h
setTimeout(h, delay, for) ==
    [h EXCEPT !.timers = Append(@, Timer(delay, for, h.attempts)),
              !.timerRef = Len(h.timers) + 1]

IsOpen(h) == h.wsRef # 0 /\ h.sockets[h.wsRef].readyState = "OPEN"

\* connect (43-132): nothing when wsRef's socket is OPEN; otherwise
\* new WebSocket, the handlers and wsRef.current = ws, or, when the
\* constructor throws, the catch (122-131).
connect(h, throws, by) ==
    IF IsOpen(h) THEN h
    ELSE IF throws
    THEN setTimeout(
             setIsConnected(
                 setConnectionError([h EXCEPT !.attempts = @ + 1, !.failures = @ + 1],
                                    <<"Failed to connect to WebSocket">>),
                 FALSE),
             CatchReconnectDelay, 0)
    ELSE [h EXCEPT !.attempts = @ + 1,
                   !.sockets = Append(@, Socket(by)),
                   !.wsRef = Len(h.sockets) + 1]

\* The constructor may throw while the model has failures left, and a
\* call of connect that constructs needs a socket left.
Throws(h) == IF h.failures < MaxFailures THEN BOOLEAN ELSE {FALSE}
MayConnect(h) == IsOpen(h) \/ Len(h.sockets) < MaxSockets

\* ws.onopen (54-64)
onopen(h) ==
    LET opened == setConnectionError(setIsConnected(h, TRUE), <<>>)
    IN  IF opened.timerRef # 0
        THEN [clearTimeout(opened, opened.timerRef) EXCEPT !.timerRef = 0]
        ELSE opened
\* ws.onerror (103-107)
onerror(h) ==
    setIsConnected(setConnectionError(h, <<"WebSocket connection error">>), FALSE)
\* ws.onclose (109-119) of socket s
onclose(h, s) == setTimeout(setIsConnected(h, FALSE), CloseReconnectDelay, s)

\* ws.close() on wsRef's socket
wsClose(h, s) ==
    IF h.sockets[s].readyState \in {"CONNECTING", "OPEN"}
    THEN [h EXCEPT !.sockets[s].readyState = "CLOSING",
                   !.sockets[s].closedBy = "cleanup"]
    ELSE h
\* The effect's cleanup (141-149)
EffectCleanup(h) ==
    LET cleared == clearTimeout(h, h.timerRef)
    IN  IF cleared.wsRef # 0
        THEN [wsClose(cleared, cleared.wsRef) EXCEPT !.wsRef = 0]
        ELSE cleared
\* The effect (134-150) for the symbols of this render.
Effect(h, symbols, throws) ==
    IF Len(symbols) = 0
    THEN [h EXCEPT !.symbols = symbols, !.cleanup = FALSE]
    ELSE [connect([h EXCEPT !.symbols = symbols], throws, 0) EXCEPT !.cleanup = TRUE]

Handled(h, last) == [h EXCEPT !.last = last, !.frame = <<>>, !.delivered = <<>>]

\* The first commit of the component that uses the hook.
Mount(lists) ==
    /\ ~sock.mounted /\ sock.last = "none"
    /\ \E symbols \in lists : \E throws \in Throws(sock) :
        sock' = Handled(Effect([sock EXCEPT !.mounted = TRUE], symbols, throws), "mount")
    /\ UNCHANGED <<handlerVars, retryVars, symbolVars, loopVars, pageVars,
                   sorting, watch, prof>>

\* A render with another symbols array: symbolsRef is updated (36-38), and
\* when the length differs the effect's cleanup and the effect run.
SymbolsChange(lists) ==
    /\ sock.mounted /\ sock.changes < MaxChanges
    /\ \E symbols \in lists \ {sock.symbols} : \E throws \in Throws(sock) :
        LET h == [sock EXCEPT !.changes = @ + 1]
            cleaned == IF h.cleanup THEN EffectCleanup(h) ELSE h
        IN  IF Len(symbols) = Len(sock.symbols)
            THEN sock' = Handled([h EXCEPT !.symbols = symbols], "symbols")
            ELSE /\ Len(symbols) > 0 => MayConnect(cleaned)
                 /\ sock' = Handled(Effect(cleaned, symbols, throws), "effect")
    /\ UNCHANGED <<handlerVars, retryVars, symbolVars, loopVars, pageVars,
                   sorting, watch, prof>>

Unmount ==
    /\ sock.mounted
    /\ sock' = Handled([(IF sock.cleanup THEN EffectCleanup(sock) ELSE sock)
                           EXCEPT !.mounted = FALSE, !.cleanup = FALSE],
                       "unmount")
    /\ UNCHANGED <<handlerVars, retryVars, symbolVars, loopVars, pageVars,
                   sorting, watch, prof>>

\* The open event of a socket.
SocketOpens ==
    /\ \E s \in DOMAIN sock.sockets :
        /\ sock.sockets[s].readyState = "CONNECTING"
        /\ sock' = Handled(onopen([sock EXCEPT !.sockets[s].readyState = "OPEN"]), "open")
    /\ UNCHANGED <<handlerVars, retryVars, symbolVars, loopVars, pageVars,
                   sorting, watch, prof>>

\* A message event of an open socket.
SocketMessage(frames) ==
    /\ \E s \in DOMAIN sock.sockets : sock.sockets[s].readyState = "OPEN"
    /\ \E data \in frames :
        sock' = [sock EXCEPT !.last = "message", !.frame = <<data>>,
                             !.delivered = onmessage(data, sock.symbols)]
    /\ UNCHANGED <<handlerVars, retryVars, symbolVars, loopVars, pageVars,
                   sorting, watch, prof>>

\* The close event of a socket: after close(), or when the connection
\* fails or the peer ends it; a failure fires the error event first.
SocketCloses ==
    /\ \E s \in DOMAIN sock.sockets : \E failed \in BOOLEAN :
        /\ sock.sockets[s].readyState \in {"CONNECTING", "OPEN", "CLOSING"}
        /\ LET closed == [sock EXCEPT
                            !.sockets[s].readyState = "CLOSED",
                            !.sockets[s].closedBy =
                                IF @ = "none" THEN "peer" ELSE @]
           IN  sock' = Handled(onclose(IF failed THEN onerror(closed) ELSE closed, s),
                               "close")
    /\ UNCHANGED <<handlerVars, retryVars, symbolVars, loopVars, pageVars,
                   sorting, watch, prof>>

\* A timer set earlier with a delay that is not longer fires first.
Due(t) ==
    /\ sock.timers[t].state = "pending"
    /\ \A u \in 1..(t - 1) :
        sock.timers[u].state = "pending" => sock.timers[u].delay > sock.timers[t].delay

\* The callback of a reconnect timer: 114-118 after a close, 128-130 after
\* a failed construction.
TimerFires ==
    /\ \E t \in DOMAIN sock.timers : \E throws \in Throws(sock) :
        /\ Due(t)
        /\ LET fired == [sock EXCEPT !.timers[t].state = "fired"]
           IN  IF fired.timers[t].for # 0 /\ IsOpen(fired)
               THEN sock' = Handled(fired, "timer")
               ELSE /\ MayConnect(fired)
                    /\ sock' = Handled(connect(fired, throws, t), "timer")
    /\ UNCHANGED <<handlerVars, retryVars, symbolVars, loopVars, pageVars,
                   sorting, watch, prof>>

\* The symbols arrays of the renders and the frames of the stream: other
\* case than the prop's, a symbol outside the list, price or volume that
\* does not parse, a percentage that does not parse, a symbol twice, an
\* element without s, an object, and text that is not JSON.
SymbolLists ==
    { <<>>, <<"BTCUSDT">>, <<"ETHUSDT">>, <<"BTCUSDT", "ethusdt">> }
Frames ==
    { JsonText(TickerArray(<<TickerUpdate("BTCUSDT", "100", "20000", "0.5"),
                             TickerUpdate("ETHUSDT", "110", "30000", "-5")>>)),
      JsonText(TickerArray(<<TickerUpdate("btcusdt", "100", "20000", "abc")>>)),
      JsonText(TickerArray(<<TickerUpdate("BTCUSDT", "abc", "20000", "0.5"),
                             TickerUpdate("ETHUSDT", "110", "", "0.5")>>)),
      JsonText(TickerArray(<<TickerUpdate("BTCUSDT", "100", "20000", "0.5"),
                             TickerUpdate("BTCUSDT", "110", "30000", "1")>>)),
      JsonText(TickerArray(<<TickerUpdate("SOLUSDT", "100", "20000", "0.5")>>)),
      JsonText(TickerArray(<<TickerUpdate("BTCUSDT", "100", "20000", "0.5"),
                             TickerUpdate(Missing, "100", "20000", "0.5")>>)),
      JsonText(TickerArray(<<>>)),
      JsonText(JsonObject),
      NotJson("ping") }

\* The symbols arrays of SpecSocket differ in length, so that each change
\* runs the effect.
CountLists == { <<>>, <<"BTCUSDT">>, <<"BTCUSDT", "ethusdt">> }

\* SpecSocket: the life of the connection, without the stream's messages.
SockInit == sock = IdleSock
InitSocket ==
    /\ SockInit /\ sorting = IdleSorting /\ watch = IdleWatch /\ prof = IdleProf
    /\ HandlerIdle /\ RetryIdle /\ TaskIdle /\ LoopIdle /\ PageIdle
SocketMounts == Mount(CountLists)
SocketSymbolsChange == SymbolsChange(CountLists)
SocketNext ==
    \/ SocketMounts
    \/ SocketSymbolsChange
    \/ Unmount
    \/ SocketOpens
    \/ SocketCloses
    \/ TimerFires
SpecSocket == InitSocket /\ [][SocketNext]_vars

\* SpecSocketFair: SpecSocket with the event loop running every timer
\* callback that is due.
SpecSocketFair == InitSocket /\ [][SocketNext]_vars /\ WF_vars(TimerFires)

\* SpecStream: the messages of the stream while the hook is mounted and
\* the connection lasts.
StreamMounts == Mount(SymbolLists)
StreamSymbolsChange == SymbolsChange(SymbolLists)
StreamMessageArrives == SocketMessage(Frames)
StreamNext ==
    \/ StreamMounts
    \/ StreamSymbolsChange
    \/ Unmount
    \/ SocketOpens
    \/ StreamMessageArrives
SpecStream == InitSocket /\ [][StreamNext]_vars

-----------------------------------------------------------------------------
(* The page's sort state  (index.tsx 47-48, 112-146, 212-322, 407-546) *)

MaxInFlight == 2       \* calls of fetchData awaiting their response

SortColumns ==
    {"symbol", "price", "dailyReturn", "weeklyReturn", "monthlyReturn",
     "vwapDistance7d", "vwapDistance30d", "vwapDistance90d", "vwapDistance365d",
     "ema200Distance4h", "ema200Distance1d", "volume", "zScore",
     "oiChange24h", "oiChange7d"}

\* a < b on strings of digits and lower-case letters, by code unit.
CodeOrder == "0123456789abcdefghijklmnopqrstuvwxyz"
CharCode(c) ==
    IF \E i \in 1..Len(CodeOrder) : SubSeq(CodeOrder, i, i) = c
    THEN CHOOSE i \in 1..Len(CodeOrder) : SubSeq(CodeOrder, i, i) = c
    ELSE 0
RECURSIVE StringLess(_, _)
StringLess(a, b) ==
    IF Len(b) = 0 THEN FALSE
    ELSE IF Len(a) = 0 THEN TRUE
    ELSE IF SubSeq(a, 1, 1) # SubSeq(b, 1, 1)
    THEN CharCode(SubSeq(a, 1, 1)) < CharCode(SubSeq(b, 1, 1))
    ELSE StringLess(SubSeq(a, 2, Len(a)), SubSeq(b, 2, Len(b)))

\* The switch of the comparator (469-534): the value a column sorts by.
OrZero(x) == IF x = Absent THEN Num(0) ELSE x
SortValue(coin, column) ==
    IF column = "price" THEN coin.currentPrice
    ELSE IF column \in {"zScore", "oiChange24h", "oiChange7d"} THEN OrZero(coin[column])
    ELSE coin[column]

\* The comparator (461-537): negative, zero or positive.
Compare(a, b, column, sortMultiplier) ==
    IF column = "symbol"
    THEN IF StringLess(toLowerCase(a.symbol), toLowerCase(b.symbol))
         THEN Num(-1 * sortMultiplier)
         ELSE IF StringLess(toLowerCase(b.symbol), toLowerCase(a.symbol))
         THEN Num(sortMultiplier)
         ELSE Num(0)
    ELSE Mul(Sub(SortValue(a, column), SortValue(b, column)), Num(sortMultiplier))

\* Array.prototype.sort is stable: x goes behind every element that the
\* comparator does not put after it.
RECURSIVE InsertSorted(_, _, _, _)
InsertSorted(sorted, x, column, sortMultiplier) ==
    IF Len(sorted) = 0 THEN <<x>>
    ELSE IF Gt(Compare(sorted[Len(sorted)], x, column, sortMultiplier), Num(0))
    THEN Append(InsertSorted(SubSeq(sorted, 1, Len(sorted) - 1), x, column,
                             sortMultiplier),
                sorted[Len(sorted)])
    ELSE Append(sorted, x)
RECURSIVE SortedPrefix(_, _, _, _)
SortedPrefix(list, n, column, sortMultiplier) ==
    IF n = 0 THEN <<>>
    ELSE InsertSorted(SortedPrefix(list, n - 1, column, sortMultiplier), list[n],
                      column, sortMultiplier)

\* The rows shown for a sort state (456-543 and 238-320), with no
\* watchlist active and no search text.
Shown(baseData, sortColumn, sortState) ==
    IF sortState = "default" \/ sortColumn = <<>> THEN baseData
    ELSE SortedPrefix(baseData, Len(baseData), sortColumn[1],
                      IF sortState = "highest" THEN -1 ELSE 1)

SortOf(sortColumn, sortState) == [sortColumn |-> sortColumn, sortState |-> sortState]
\* handleHeaderClick with the second click on a header keeping the column.
NextSortKeepsColumn(sortColumn, sortState, column) ==
    IF sortColumn = <<column>>
    THEN IF sortState = "highest" THEN SortOf(<<column>>, "lowest")
         ELSE IF sortState = "lowest" THEN SortOf(<<column>>, "default")
         ELSE SortOf(<<column>>, "highest")
    ELSE SortOf(<<column>>, "highest")
\* handleHeaderClick (407-430): the sort state after a click on column.
NextSort(sortColumn, sortState, column) ==
    IF sortColumn = <<column>>
    THEN IF sortState = "highest" THEN SortOf(<<column>>, "lowest")
         ELSE IF sortState = "lowest" THEN SortOf(<<>>, "default")
         ELSE SortOf(<<column>>, "highest")
    ELSE SortOf(<<column>>, "highest")

\* sorting holds sortColumn (<<>>: null), sortState, originalData, data,
\* fetches (the resetSort argument of every call of fetchData that awaits
\* its response) and last, the handler that ran last with its argument.
LastOp(op, arg) == [op |-> op, arg |-> arg]

\* handleHeaderClick (407-546) for a click on the header of column.
HeaderClicked ==
    /\ \E column \in SortColumns :
        LET next == NextSort(sorting.sortColumn, sorting.sortState, column)
        IN  sorting' = [sorting EXCEPT
                          !.sortColumn = next.sortColumn,
                          !.sortState = next.sortState,
                          !.data = Shown(sorting.originalData, next.sortColumn,
                                         next.sortState),
                          !.last = LastOp("click", column)]
    /\ UNCHANGED <<handlerVars, retryVars, symbolVars, loopVars, pageVars,
                   sock, watch, prof>>

\* fetchData(resetSort) is called (202, 206, 744) and awaits the response.
FetchCalled ==
    /\ Len(sorting.fetches) < MaxInFlight
    /\ \E resetSort \in BOOLEAN :
        sorting' = [sorting EXCEPT !.fetches = Append(@, resetSort),
                                   !.last = LastOp("fetchData", resetSort)]
    /\ UNCHANGED <<handlerVars, retryVars, symbolVars, loopVars, pageVars,
                   sock, watch, prof>>

Without(list, i) == SubSeq(list, 1, i - 1) \o SubSeq(list, i + 1, Len(list))

\* A call of fetchData resumes (115-140); on an array the lists are
\* replaced, the sort is reset when asked for, and the effect at 212-322
\* applies the sort state to the new rows.
SortFetchSettled(answers) ==
    /\ \E i \in DOMAIN sorting.fetches : \E ans \in answers :
        LET resetSort == sorting.fetches[i]
            ok == /\ ans.st = "fulfilled"
                  /\ ans.resp.status \in 200..299
                  /\ "array" \in DOMAIN ans.resp.body
            next == IF resetSort THEN SortOf(<<>>, "default")
                    ELSE SortOf(sorting.sortColumn, sorting.sortState)
        IN  sorting' =
                IF ok
                THEN [sorting EXCEPT
                        !.fetches = Without(@, i),
                        !.originalData = ans.resp.body.array,
                        !.sortColumn = next.sortColumn,
                        !.sortState = next.sortState,
                        !.data = Shown(ans.resp.body.array, next.sortColumn,
                                       next.sortState),
                        !.last = LastOp("fetched", resetSort)]
                ELSE [sorting EXCEPT !.fetches = Without(@, i),
                                     !.last = LastOp("fetchFailed", resetSort)]
    /\ UNCHANGED <<handlerVars, retryVars, symbolVars, loopVars, pageVars,
                   sock, watch, prof>>

SortAnswers ==
    { [st |-> "fulfilled", resp |-> Response(200, JsonArray(SnapshotFirst))],
      [st |-> "fulfilled", resp |-> Response(200, JsonArray(SnapshotSecond))],
      [st |-> "fulfilled", resp |-> EmptyResult],
      [st |-> "rejected"] }

SortInit == sorting = IdleSorting
InitSort ==
    /\ SortInit /\ sock = IdleSock /\ watch = IdleWatch /\ prof = IdleProf
    /\ HandlerIdle /\ RetryIdle /\ TaskIdle /\ LoopIdle /\ PageIdle
SortFetchAnswered == SortFetchSettled(SortAnswers)
SortNext == HeaderClicked \/ FetchCalled \/ SortFetchAnswered
SpecSort == InitSort /\ [][SortNext]_vars

-----------------------------------------------------------------------------
(* useWatchlists  (src/hooks/useWatchlists.ts) *)

MaxLists == 2          \* watchlists held at once

Watchlist(id, name, coins) == [id |-> id, name |-> name, coins |-> coins]

\* JSON.stringify of an array of strings and of the watchlist array.
RECURSIVE JoinStrings(_, _)
JoinStrings(items, k) ==
    IF k > Len(items) THEN ""
    ELSE (IF k > 1 THEN "," ELSE "") \o "\"" \o items[k] \o "\""
         \o JoinStrings(items, k + 1)
StringifyStrings(items) == "[" \o JoinStrings(items, 1) \o "]"
StringifyWatchlist(w) ==
    "{\"id\":\"" \o w.id \o "\",\"name\":\"" \o w.name \o "\",\"coins\":"
        \o StringifyStrings(w.coins) \o "}"
RECURSIVE JoinWatchlists(_, _)
JoinWatchlists(list, k) ==
    IF k > Len(list) THEN ""
    ELSE (IF k > 1 THEN "," ELSE "") \o StringifyWatchlist(list[k])
         \o JoinWatchlists(list, k + 1)
StringifyWatchlists(list) == "[" \o JoinWatchlists(list, 1) \o "]"

\* The watchlist arrays whose JSON text the storage can hold, and
\* JSON.parse on a stored text: the array with that text, an object for
\* the text of one, a throw for anything else.
WatchlistIds == {"default", "watchlist-1", "watchlist-2"}
WatchlistNames == {"My Watchlist", "Alts"}
CoinLists ==
    {<<>>, <<"BTCUSDT">>, <<"ETHUSDT">>, <<"BTCUSDT", "ETHUSDT">>,
     <<"ETHUSDT", "BTCUSDT">>}
WatchlistValues ==
    { Watchlist(id, name, coins) :
        id \in WatchlistIds, name \in WatchlistNames, coins \in CoinLists }
WatchlistArrays ==
    UNION { [1..n -> WatchlistValues] : n \in 0..MaxLists }
WatchlistTexts == [list \in WatchlistArrays |-> StringifyWatchlists(list)]
ParseWatchlists(text) ==
    IF \E list \in WatchlistArrays : WatchlistTexts[list] = text
    THEN [threw |-> FALSE, isArray |-> TRUE,
          value |-> CHOOSE list \in WatchlistArrays : WatchlistTexts[list] = text]
    ELSE IF text = "{}" THEN [threw |-> FALSE, isArray |-> FALSE]
    ELSE [threw |-> TRUE]

DefaultWatchlist == Watchlist("default", "My Watchlist", <<>>)

\* watch holds mounted, watchlists, storage (the item under STORAGE_KEY,
\* <<>> when there is none) and last, the operation that ran last.

\* The save effect (40-48), which runs after every render that changed
\* watchlists or mounted.
SaveEffect(w) ==
    IF w.mounted /\ Len(w.watchlists) > 0
    THEN [w EXCEPT !.storage = <<StringifyWatchlists(w.watchlists)>>]
    ELSE w

\* The load effect (16-37) over the storage as it is.
LoadEffect(w) ==
    IF w.storage # <<>>
    THEN LET parsed == ParseWatchlists(w.storage[1])
         IN  IF parsed.threw THEN [w EXCEPT !.mounted = TRUE, !.watchlists = <<>>]
             ELSE [w EXCEPT !.mounted = TRUE,
                            !.watchlists = IF parsed.isArray THEN parsed.value ELSE <<>>]
    ELSE [w EXCEPT !.mounted = TRUE, !.watchlists = <<DefaultWatchlist>>,
                   !.storage = <<StringifyWatchlists(<<DefaultWatchlist>>)>>]

Filter(list, Kept(_)) ==
    LET F[k \in 0..Len(list)] ==
            IF k = 0 THEN <<>>
            ELSE IF Kept(list[k]) THEN Append(F[k - 1], list[k]) ELSE F[k - 1]
    IN  F[Len(list)]
Includes(list, x) == \E k \in 1..Len(list) : list[k] = x

\* The five updaters (50-95).
createWatchlist(prev, name, t) ==
    Append(prev, Watchlist("watchlist-" \o Digits[t + 1], name, <<>>))
deleteWatchlist(prev, id) ==
    LET Other(w) == w.id # id IN Filter(prev, Other)
renameWatchlist(prev, id, newName) ==
    [k \in 1..Len(prev) |-> IF prev[k].id = id THEN [prev[k] EXCEPT !.name = newName]
                            ELSE prev[k]]
addCoinToWatchlist(prev, watchlistId, coinSymbol) ==
    [k \in 1..Len(prev) |->
        IF prev[k].id = watchlistId /\ ~Includes(prev[k].coins, coinSymbol)
        THEN [prev[k] EXCEPT !.coins = Append(@, coinSymbol)]
        ELSE prev[k]]
removeCoinFromWatchlist(prev, watchlistId, coinSymbol) ==
    [k \in 1..Len(prev) |->
        IF prev[k].id = watchlistId
        THEN LET OtherCoin(c) == c # coinSymbol
             IN  [prev[k] EXCEPT !.coins = Filter(@, OtherCoin)]
        ELSE prev[k]]

\* A render with the new list and the save effect after it.
Rendered(list, last) ==
    SaveEffect([watch EXCEPT !.watchlists = list, !.last = last])

\* The first commit: the load effect, then the render it causes and the
\* save effect of that render.
WatchMount ==
    /\ ~watch.mounted
    /\ watch' = SaveEffect([LoadEffect(watch) EXCEPT !.last = "mount"])
    /\ UNCHANGED <<handlerVars, retryVars, symbolVars, loopVars, pageVars,
                   sock, sorting, prof>>

\* The page is loaded again: a new instance of the hook over the storage
\* the old one leaves.
WatchReload ==
    /\ watch.mounted
    /\ watch' = SaveEffect([LoadEffect([watch EXCEPT !.watchlists = <<>>,
                                                    !.mounted = FALSE])
                               EXCEPT !.last = "reload"])
    /\ UNCHANGED <<handlerVars, retryVars, symbolVars, loopVars, pageVars,
                   sock, sorting, prof>>

WatchCreate ==
    /\ watch.mounted /\ Len(watch.watchlists) < MaxLists
    /\ \E name \in WatchlistNames : \E t \in 1..2 :
        watch' = Rendered(createWatchlist(watch.watchlists, name, t), "create")
    /\ UNCHANGED <<handlerVars, retryVars, symbolVars, loopVars, pageVars,
                   sock, sorting, prof>>
WatchDelete ==
    /\ watch.mounted
    /\ \E id \in WatchlistIds :
        watch' = Rendered(deleteWatchlist(watch.watchlists, id), "delete")
    /\ UNCHANGED <<handlerVars, retryVars, symbolVars, loopVars, pageVars,
                   sock, sorting, prof>>
WatchRename ==
    /\ watch.mounted
    /\ \E id \in WatchlistIds : \E name \in WatchlistNames :
        watch' = Rendered(renameWatchlist(watch.watchlists, id, name), "rename")
    /\ UNCHANGED <<handlerVars, retryVars, symbolVars, loopVars, pageVars,
                   sock, sorting, prof>>
WatchAddCoin ==
    /\ watch.mounted
    /\ \E id \in WatchlistIds : \E coin \in {"BTCUSDT", "ETHUSDT"} :
        watch' = Rendered(addCoinToWatchlist(watch.watchlists, id, coin), "addCoin")
    /\ UNCHANGED <<handlerVars, retryVars, symbolVars, loopVars, pageVars,
                   sock, sorting, prof>>
WatchRemoveCoin ==
    /\ watch.mounted
    /\ \E id \in WatchlistIds : \E coin \in {"BTCUSDT", "ETHUSDT"} :
        watch' = Rendered(removeCoinFromWatchlist(watch.watchlists, id, coin),
                          "removeCoin")
    /\ UNCHANGED <<handlerVars, retryVars, symbolVars, loopVars, pageVars,
                   sock, sorting, prof>>

WatchInit == watch = IdleWatch
InitWatchlists ==
    /\ WatchInit /\ sock = IdleSock /\ sorting = IdleSorting /\ prof = IdleProf
    /\ HandlerIdle /\ RetryIdle /\ TaskIdle /\ LoopIdle /\ PageIdle
WatchNext ==
    \/ WatchMount
    \/ WatchReload
    \/ WatchCreate
    \/ WatchDelete
    \/ WatchRename
    \/ WatchAddCoin
    \/ WatchRemoveCoin
SpecWatchlists == InitWatchlists /\ [][WatchNext]_vars

-----------------------------------------------------------------------------
(* useColumnProfiles  (src/hooks/useColumnProfiles.ts) *)

MaxProfiles == 2       \* profiles held at once

ColumnProfile(id, name, hiddenColumns) ==
    [id |-> id, name |-> name, hiddenColumns |-> hiddenColumns]

\* JSON.stringify of the profile array.
StringifyProfile(p) ==
    "{\"id\":\"" \o p.id \o "\",\"name\":\"" \o p.name \o "\",\"hiddenColumns\":"
        \o StringifyStrings(p.hiddenColumns) \o "}"
RECURSIVE JoinProfiles(_, _)
JoinProfiles(list, k) ==
    IF k > Len(list) THEN ""
    ELSE (IF k > 1 THEN "," ELSE "") \o StringifyProfile(list[k])
         \o JoinProfiles(list, k + 1)
StringifyProfiles(list) == "[" \o JoinProfiles(list, 1) \o "]"

\* The profile arrays whose JSON text the storage can hold, and JSON.parse
\* on a stored text.
ProfileIds == {"default", "profile-1"}
ProfileNames == {"Default", "Compact"}
HiddenLists == {<<>>, <<"volume", "zScore">>}
ProfileValues ==
    { ColumnProfile(id, name, hidden) :
        id \in ProfileIds, name \in ProfileNames, hidden \in HiddenLists }
ProfileArrays == UNION { [1..n -> ProfileValues] : n \in 0..MaxProfiles }
ProfileTexts == [list \in ProfileArrays |-> StringifyProfiles(list)]
ParseProfiles(text) ==
    IF \E list \in ProfileArrays : ProfileTexts[list] = text
    THEN [threw |-> FALSE, isArray |-> TRUE,
          value |-> CHOOSE list \in ProfileArrays : ProfileTexts[list] = text]
    ELSE IF text = "{}" THEN [threw |-> FALSE, isArray |-> FALSE]
    ELSE [threw |-> TRUE]

DefaultProfile == ColumnProfile("default", "Default", <<>>)
HasProfile(list, id) == \E k \in 1..Len(list) : list[k].id = id

\* prof holds mounted, profiles, activeProfileId (<<>>: null), storage and
\* storedActive (the items under the two keys, <<>> when there is none),
\* timer (the debounced save is pending) and last, the operation that ran
\* last with its argument.

\* The load effect (18-57) over the storage as it is.
LoadProfiles(p) ==
    IF p.storage # <<>>
    THEN LET parsed == ParseProfiles(p.storage[1])
         IN  IF parsed.threw
             THEN [p EXCEPT !.mounted = TRUE, !.profiles = <<DefaultProfile>>,
                            !.activeProfileId = <<"default">>]
             ELSE LET profilesList == IF parsed.isArray THEN parsed.value ELSE <<>>
                  IN  [p EXCEPT
                         !.mounted = TRUE,
                         !.profiles = profilesList,
                         !.activeProfileId =
                             IF p.storedActive # <<>>
                                /\ HasProfile(profilesList, p.storedActive[1])
                             THEN p.storedActive
                             ELSE IF Len(profilesList) > 0
                             THEN <<profilesList[1].id>>
                             ELSE @]
    ELSE [p EXCEPT !.mounted = TRUE, !.profiles = <<DefaultProfile>>,
                   !.activeProfileId = <<"default">>,
                   !.storage = <<StringifyProfiles(<<DefaultProfile>>)>>,
                   !.storedActive = <<"default">>]

\* The save effect (60-75): the cleanup of the last run clears its timer,
\* and a new timer of 150 ms is set unless the list is empty.
SaveDebounced(p) == [p EXCEPT !.timer = p.mounted /\ Len(p.profiles) > 0]

\* createProfile (77-86)
createProfile(p, name, hiddenColumns, t) ==
    LET id == "profile-" \o Digits[t + 1]
    IN  [p EXCEPT !.profiles = Append(@, ColumnProfile(id, name, hiddenColumns)),
                  !.activeProfileId = <<id>>]
\* deleteProfile (88-106)
deleteProfile(p, id) ==
    LET Other(q) == q.id # id
        filtered == Filter(p.profiles, Other)
    IN  IF p.activeProfileId = <<id>> /\ Len(filtered) > 0
        THEN [p EXCEPT !.profiles = filtered, !.activeProfileId = <<filtered[1].id>>]
        ELSE IF Len(filtered) = 0
        THEN [p EXCEPT !.profiles = <<DefaultProfile>>,
                       !.activeProfileId = <<"default">>]
        ELSE [p EXCEPT !.profiles = filtered]
\* renameProfile (108-112) and updateProfileColumns (114-118)
renameProfile(p, id, newName) ==
    [p EXCEPT !.profiles =
        [k \in 1..Len(@) |-> IF @[k].id = id THEN [@[k] EXCEPT !.name = newName]
                             ELSE @[k]]]
updateProfileColumns(p, id, hiddenColumns) ==
    [p EXCEPT !.profiles =
        [k \in 1..Len(@) |->
            IF @[k].id = id THEN [@[k] EXCEPT !.hiddenColumns = hiddenColumns]
            ELSE @[k]]]
\* switchProfile (120-124)
switchProfile(p, id) ==
    IF HasProfile(p.profiles, id) THEN [p EXCEPT !.activeProfileId = <<id>>] ELSE p

\* The items localStorage can hold on a first load: none, the text of an
\* empty array, and text that is not JSON.
FirstStorages == { <<>>, <<"[]">>, <<"{not json">> }

ProfRan(p, op, arg) == SaveDebounced([p EXCEPT !.last = [op |-> op, arg |-> arg]])

ProfMount ==
    /\ ~prof.mounted /\ prof.last.op = "none"
    /\ \E item \in FirstStorages :
        prof' = ProfRan(LoadProfiles([prof EXCEPT !.storage = item]), "mount", "")
    /\ UNCHANGED <<handlerVars, retryVars, symbolVars, loopVars, pageVars,
                   sock, sorting, watch>>

\* The page is loaded again: a new instance of the hook over the storage
\* the old one leaves; a pending save is lost.
ProfReload ==
    /\ prof.mounted
    /\ prof' = ProfRan(LoadProfiles([prof EXCEPT !.mounted = FALSE,
                                                 !.profiles = <<>>,
                                                 !.activeProfileId = <<>>]),
                       "reload", "")
    /\ UNCHANGED <<handlerVars, retryVars, symbolVars, loopVars, pageVars,
                   sock, sorting, watch>>

\* The callback of the save timer (63-72).
ProfSaved ==
    /\ prof.timer
    /\ prof' = [prof EXCEPT
                  !.timer = FALSE,
                  !.storage = <<StringifyProfiles(prof.profiles)>>,
                  !.storedActive = IF prof.activeProfileId # <<>>
                                   THEN prof.activeProfileId ELSE @,
                  !.last = [op |-> "saved", arg |-> ""]]
    /\ UNCHANGED <<handlerVars, retryVars, symbolVars, loopVars, pageVars,
                   sock, sorting, watch>>

ProfCreate ==
    /\ prof.mounted /\ Len(prof.profiles) < MaxProfiles
    /\ \E name \in ProfileNames : \E hidden \in HiddenLists :
        prof' = ProfRan(createProfile(prof, name, hidden, 1), "create", "")
    /\ UNCHANGED <<handlerVars, retryVars, symbolVars, loopVars, pageVars,
                   sock, sorting, watch>>
ProfDelete ==
    /\ prof.mounted
    /\ \E id \in ProfileIds \cup {"profile-9"} :
        prof' = ProfRan(deleteProfile(prof, id), "delete", id)
    /\ UNCHANGED <<handlerVars, retryVars, symbolVars, loopVars, pageVars,
                   sock, sorting, watch>>
ProfRename ==
    /\ prof.mounted
    /\ \E id \in ProfileIds : \E name \in ProfileNames :
        prof' = ProfRan(renameProfile(prof, id, name), "rename", id)
    /\ UNCHANGED <<handlerVars, retryVars, symbolVars, loopVars, pageVars,
                   sock, sorting, watch>>
ProfUpdateColumns ==
    /\ prof.mounted
    /\ \E id \in ProfileIds : \E hidden \in HiddenLists :
        prof' = ProfRan(updateProfileColumns(prof, id, hidden), "update", id)
    /\ UNCHANGED <<handlerVars, retryVars, symbolVars, loopVars, pageVars,
                   sock, sorting, watch>>
ProfSwitch ==
    /\ prof.mounted
    /\ \E id \in ProfileIds \cup {"profile-9"} :
        prof' = ProfRan(switchProfile(prof, id), "switch", id)
    /\ UNCHANGED <<handlerVars, retryVars, symbolVars, loopVars, pageVars,
                   sock, sorting, watch>>

ProfInit == prof = IdleProf
InitProfiles ==
    /\ ProfInit /\ sock = IdleSock /\ sorting = IdleSorting /\ watch = IdleWatch
    /\ HandlerIdle /\ RetryIdle /\ TaskIdle /\ LoopIdle /\ PageIdle
ProfNext ==
    \/ ProfMount
    \/ ProfReload
    \/ ProfSaved
    \/ ProfCreate
    \/ ProfDelete
    \/ ProfRename
    \/ ProfUpdateColumns
    \/ ProfSwitch
SpecProfiles == InitProfiles /\ [][ProfNext]_vars

-----------------------------------------------------------------------------
(* Claims about retryWithBackoff, under SpecRetry *)

IsCandleFetch ==
    rt.maxRetries = MaxRetriesDefault /\ rt.baseDelay = BaseDelayDefault

LastAnswer == rt.answers[Len(rt.answers)]

\* A retry-after header that carries a number of seconds.
IsSeconds(header) == header \in {"0", "2", "7"}

\* C7: a candle fetch is attempted at most 3 times in total; the wait after a
\* 429 is retry-after seconds when the header carries them, else 1 s after
\* the first failure and 2 s after the second; a 429 on the third attempt is
\* thrown to the caller; a success on any attempt returns that attempt's
\* response.
C7_RetryPolicy ==
    IsCandleFetch =>
        /\ rt.calls <= 3
        /\ rt.calls = Len(rt.answers)
        /\ Len(rt.waits) <= 2
        /\ \A i \in 1..Len(rt.waits) :
            LET ans == rt.answers[i]
            IN  /\ ~ans.ok /\ ans.status = 429
                /\ ans.retryAfter = Missing =>
                       rt.waits[i] = Num(IF i = 1 THEN 1000 ELSE 2000)
                /\ IsSeconds(ans.retryAfter) =>
                       rt.waits[i] = Mul(parseInt(ans.retryAfter), Num(1000))
        /\ (rt.calls = 3 /\ ~LastAnswer.ok /\ LastAnswer.status = 429) =>
               (rt.pc = "threw" /\ rt.result = LastAnswer)
        /\ (rt.calls > 0 /\ LastAnswer.ok) =>
               (rt.pc = "returned" /\ rt.result = LastAnswer)
        /\ rt.pc = "returned" => (rt.result = LastAnswer /\ LastAnswer.ok)

\* Two 429s without a header, then a success: waits of 1 s and 2 s, and the
\* third attempt's response returned.
C7_Witness ==
    /\ IsCandleFetch
    /\ rt.pc = "returned"
    /\ rt.calls = 3
    /\ rt.waits = <<Num(1000), Num(2000)>>
    /\ rt.result = [ok |-> TRUE, value |-> "payload2"]

\* C8: an error whose status is not 429 is never retried: it is the last
\* answer, no delay follows it, and it is thrown to the caller; when it is
\* the first answer, fn was invoked exactly once and no delay was taken.
C8_NoRetryOnOtherErrors ==
    \A i \in 1..Len(rt.answers) :
        (~rt.answers[i].ok /\ rt.answers[i].status # 429) =>
            /\ i = Len(rt.answers)
            /\ rt.calls = i
            /\ Len(rt.waits) = i - 1
            /\ rt.pc = "threw"
            /\ rt.result = rt.answers[i]

C8_Witness ==
    /\ rt.pc = "threw"
    /\ rt.calls = 1
    /\ rt.waits = <<>>
    /\ rt.result = [ok |-> FALSE, status |-> 500, retryAfter |-> Missing]

IsOIRequest == rt.site \in {"currentOI", "oiHistory"}
NoRetryAfter(err) == err.retryAfter \in {Missing, ""}

\* C11 as stated: every open-interest request is attempted at most 2 times,
\* and every delay it takes is shorter than the delay the candle fetcher
\* takes for the same attempt number.
C11_AnyDelayShorter ==
    IsOIRequest =>
        /\ rt.calls <= 2
        /\ \A i \in 1..Len(rt.waits) :
            Lt(rt.waits[i], RetryAfterMs(rt.answers[i], i - 1, 1000))

\* C11 amended: every open-interest request is attempted at most 2 times
\* (an OI-history request once: its 429 is a response, not an error); a
\* delay taken without a retry-after header is 500 ms, shorter than the
\* candle fetcher's 1000 ms for that attempt; a delay taken on a retry-after
\* header is the header's, the same for both.
C11_OpenInterestRetries ==
    IsOIRequest =>
        /\ rt.calls <= 2
        /\ Len(rt.waits) <= 1
        /\ rt.site = "oiHistory" => (rt.calls <= 1 /\ rt.waits = <<>>)
        /\ \A i \in 1..Len(rt.waits) :
            LET err == rt.answers[i]
            IN  /\ NoRetryAfter(err) =>
                    /\ rt.waits[i] = Num(500)
                    /\ Lt(rt.waits[i], Num(1000 * Pow2(i - 1)))
                /\ ~NoRetryAfter(err) =>
                    rt.waits[i] = Mul(parseInt(err.retryAfter), Num(1000))

\* The current-OI request met a 429 without header, waited 500 ms, and its
\* second attempt met a 429 again: thrown.
C11_Witness ==
    /\ rt.site = "currentOI"
    /\ rt.calls = 2
    /\ rt.waits = <<Num(500)>>
    /\ rt.pc = "threw"
    /\ rt.result.status = 429

-----------------------------------------------------------------------------
(* Claims about one per-symbol task, under SpecSymbol *)

TaskRows == DataOrEmpty(task.kl.data)

CoarseFailed == task.kl.st = "rejected"
NoValidCoarseClose ==
    task.kl.st = "fulfilled" /\
    \A i \in 1..Len(TaskRows) :
        TaskRows[i] = Null \/ ~Gt(parseFloat(TaskRows[i].close), Num(0))
FineFailed == task.kl4h.st = "rejected"

\* The task has nothing against the symbol but, possibly, its 4h answer: a
\* positive price, a fulfilled 1d answer of well-formed rows with a valid
\* close, and the validity gate passed.
OnlyFineInDoubt ==
    /\ Gt(parseFloat(task.ticker.lastPrice), Num(0))
    /\ task.kl.st = "fulfilled"
    /\ \A i \in 1..Len(TaskRows) : TaskRows[i] # Null
    /\ \E i \in 1..Len(TaskRows) : Gt(parseFloat(TaskRows[i].close), Num(0))
    /\ Ge(parseFloat(task.ticker.quoteVolume), Num(10000))
    /\ Len(TaskRows) >= 2
    /\ Gt(parseFloat(TaskRows[Len(TaskRows) - 1].close), Num(0))

\* C9: a failed 1d fetch, or 1d candles without a valid positive close, leave
\* the symbol out; a failed 4h fetch alone does not: the record is produced
\* with ema2004h equal to the current price and ema200Distance4h exactly 0.
C9_CoarseMandatoryFineOptional ==
    task.pc = "settled" =>
        /\ (CoarseFailed \/ NoValidCoarseClose) => task.result = Null
        /\ (FineFailed /\ OnlyFineInDoubt) => task.result # Null
        /\ (FineFailed /\ task.result # Null) =>
               /\ task.result.ema2004h = task.result.currentPrice
               /\ task.result.ema2004h = parseFloat(task.ticker.lastPrice)
               /\ task.result.ema200Distance4h = Num(0)

C9_Witness ==
    /\ task.pc = "settled"
    /\ task.kl4h = Rejected(500)
    /\ task.result # Null
    /\ task.result.ema2004h = Num(100)
    /\ task.result.ema200Distance4h = Num(0)

\* The current-OI request failed, or no history candidate gave usable rows.
CurrentOIFailed ==
    task.oi.st = "rejected" \/ task.oi.data.kind # "oi"
CandidateUnusable(resp) ==
    \/ resp.st = "rejected"
    \/ resp.status # 200
    \/ resp.data.kind = "undefined"
    \/ resp.data.runs = <<>>
NoUsableHistory == \A i \in 1..Len(task.hist) : CandidateUnusable(task.hist[i])

\* C10: whatever the open-interest requests answer, a task that reached them
\* and passes the validity gate produces its record; with the current-OI
\* request failed or no usable history, oiChange24h and oiChange7d are both
\* absent; and every other field is what it was before the open-interest
\* block, so the same for every open-interest outcome.
C10_OpenInterestIsolation ==
    task.pc = "settled" /\ task.ind # Null =>
        /\ PassesGate(TaskRows, parseFloat(task.ticker.quoteVolume)) <=>
               task.result # Null
        /\ task.result # Null =>
            /\ DOMAIN task.result = DOMAIN task.ind \cup OIFields
            /\ WithoutOI(task.result) = task.ind
            /\ (CurrentOIFailed \/ NoUsableHistory) =>
                   /\ task.result.oiChange24h = Absent
                   /\ task.result.oiChange7d = Absent

C10_Witness ==
    /\ task.pc = "settled"
    /\ task.result # Null
    /\ task.oi = Fulfilled(200, OIData("1500"))
    /\ NoUsableHistory
    /\ task.hist[1] = Rejected(500)
    /\ task.result.oiChange24h = Absent
    /\ task.result.oiChange7d = Absent

-----------------------------------------------------------------------------
(* Claims about the cache and concurrent requests, under Spec *)

Requests == DOMAIN req
Arrived(r) == req[r].pc # "idle"
Done(r) == req[r].pc = "done"

\* r found on arrival an entry younger than the TTL.
FoundFresh(r) ==
    /\ Arrived(r)
    /\ req[r].seen.present
    /\ req[r].at - req[r].seen.timestamp < 2 * 60 * 1000

\* A request that finds an entry younger than the TTL is answered 200 with
\* that entry's record set and requests nothing upstream; at the TTL it is
\* not.
FreshEntryIsServed ==
    \A r \in Requests :
        /\ FoundFresh(r) =>
            /\ Done(r)
            /\ req[r].resp = Response(200, JsonArray(req[r].seen.data))
            /\ req[r].upstream = {}
        /\ (Arrived(r) /\ ~FoundFresh(r)) => "exchangeInfo" \in req[r].upstream

\* Run k had succeeded when r arrived, and r arrived inside the TTL of the
\* entry k wrote.
InsideTtlOf(r, k) ==
    /\ k < r /\ Arrived(r) /\ k \notin req[r].during
    /\ req[k].wrote.present
    /\ req[r].at - req[k].wrote.timestamp < 2 * 60 * 1000

\* C1: a request that arrives while the cache entry is younger than the
\* 2-minute TTL is answered 200 with exactly the cached record set and no
\* upstream call; hence any two requests inside the TTL of one successful
\* run receive identical data.
C1_FreshCacheSameData ==
    /\ FreshEntryIsServed
    /\ \A k \in Requests : \A r1 \in Requests : \A r2 \in Requests :
        (InsideTtlOf(r1, k) /\ InsideTtlOf(r2, k)) =>
            (Done(r1) /\ Done(r2) /\ req[r1].resp = req[r2].resp)

\* C2: single-flight: a request that arrives while a run is in progress
\* never starts a second run, so at most one run is in progress at a time.
C2_SingleFlight ==
    /\ Cardinality(InProgress) <= 1
    /\ \A r \in Requests :
        (Arrived(r) /\ req[r].during # {}) => req[r].upstream = {}

\* C3: a request that arrives while another request's run is executing is
\* answered from the prior cache entry without waiting for any upstream
\* call.
C3_ReadersNeverBlock ==
    \A r \in Requests :
        (Arrived(r) /\ req[r].during # {} /\ req[r].seen.present) =>
            /\ Done(r)
            /\ req[r].resp = Response(200, JsonArray(req[r].seen.data))
            /\ req[r].upstream = {}

\* C4: a request whose run fails while a stale cache entry exists is
\* answered with the stale entry's record set, not with an error.
C4_StaleOnFailure ==
    \A r \in Requests :
        (Done(r) /\ req[r].failure # "none" /\ req[r].seen.present) =>
            /\ req[r].resp.status = 200
            /\ \E k \in Requests :
                /\ req[k].wrote.present
                /\ req[r].resp.body = JsonArray(req[k].wrote.data)

-----------------------------------------------------------------------------
(* Claims about one run, under SpecRun *)

\* The k-th symbol of the universe met no failure and has the gate's volume.
Yields(q, k) ==
    /\ q.fates[k] \in {"good", "fineDown", "oiDown"}
    /\ Ge(parseFloat(q.pairs[k].quoteVolume), Num(10000))
Yielding(q) == { k \in 1..Len(q.fates) : Yields(q, k) }
SymbolsOf(records) == { records[k].symbol : k \in 1..Len(records) }

\* C5: when at least one symbol of the universe yields a record that passes
\* the gate, the run is answered 200 and the cache entry is replaced by the
\* answer, whatever failures the other symbols hit; the answer holds the
\* yielding symbols, once each, and none of the failed ones.
C5_PerSymbolContainment ==
    LET q == req[1]
    IN  (Done(1) /\ Yielding(q) # {}) =>
            /\ q.resp.status = 200
            /\ cache = Entry(q.resp.body.array, now)
            /\ q.wrote = cache
            /\ SymbolsOf(q.resp.body.array) = { q.pairs[k].symbol : k \in Yielding(q) }
            /\ Len(q.resp.body.array) = Cardinality(Yielding(q))

\* One symbol threw, one hit a 429 on its 1d candles, the third yielded.
C5_Witness ==
    /\ Done(1)
    /\ Len(req[1].pairs) = 26
    /\ req[1].fates[1] = "throws"
    /\ req[1].fates[2] = "coarse429"
    /\ req[1].fates[26] = "good"
    /\ req[1].resp.status = 200
    /\ SymbolsOf(cache.data) = {"S26USDT"}

\* C6: with no cache entry, a run that fails (exchangeInfo or ticker error,
\* or an empty merged record set) is answered with a non-200 status and an
\* error message, never with an empty record array.
C6_FailureWithoutCache ==
    LET q == req[1]
    IN  /\ (Done(1) /\ ~q.seen.present /\ q.failure # "none") =>
            /\ q.resp.status \in {429, 500}
            /\ DOMAIN q.resp.body = {"error"}
            /\ q.resp.body.error # ""
            /\ cache = NoEntry
        /\ Done(1) => q.resp.body # JsonArray(<<>>)
        /\ (Done(1) /\ q.resp.status = 200) => q.failure = "none"

\* Every symbol of a two-symbol universe failed: the merged set is empty.
C6_Witness ==
    /\ Done(1)
    /\ req[1].failure = "empty"
    /\ Len(req[1].fates) = 2
    /\ req[1].resp.status = 500
    /\ cache = NoEntry

\* What C12 calls eligible: the listing marks the symbol TRADING and
\* PERPETUAL, its name ends with USDT, and the ticker's last price and 24h
\* quote volume are above 0.
ListedAs(q, symbol, statuses) ==
    \E j \in DOMAIN q.listing :
        /\ q.listing[j].symbol = symbol
        /\ q.listing[j].status \in statuses
Eligible(q, ticker) ==
    /\ \E j \in DOMAIN q.listing :
        /\ q.listing[j].symbol = ticker.symbol
        /\ q.listing[j].status = "TRADING"
        /\ q.listing[j].contractType = "PERPETUAL"
    /\ endsWith(ticker.symbol, "USDT")
    /\ Gt(parseFloat(ticker.lastPrice), Num(0))
    /\ Gt(parseFloat(ticker.quoteVolume), Num(0))
EligibleInFeed(q) == { k \in DOMAIN q.feed : Eligible(q, q.feed[k]) }
VolumeOf(ticker) == parseFloat(ticker.quoteVolume)

\* C12: the resolved universe holds eligible tickers only, at most 100 of
\* them, by descending 24h quote volume; no eligible ticker left out has a
\* higher volume than one taken, and none is left out while there is room;
\* a symbol the listing gives a status other than TRADING is not in it.
C12_ResolvedUniverse ==
    \A r \in DOMAIN req :
        LET q == req[r]
        IN  q.pc \in {"batches", "done"} =>
                /\ \A k \in DOMAIN q.pairs :
                    /\ Eligible(q, q.pairs[k])
                    /\ \E j \in DOMAIN q.feed : q.feed[j] = q.pairs[k]
                /\ Len(q.pairs) <= 100
                /\ \A k \in 1..(Len(q.pairs) - 1) :
                    Ge(VolumeOf(q.pairs[k]), VolumeOf(q.pairs[k + 1]))
                /\ Len(q.pairs) = Min({100, Cardinality(EligibleInFeed(q))})
                /\ \A j \in EligibleInFeed(q), k \in DOMAIN q.pairs :
                    Gt(VolumeOf(q.feed[j]), VolumeOf(q.pairs[k])) =>
                        \E m \in 1..k : q.pairs[m] = q.feed[j]
                /\ \A j \in DOMAIN q.feed :
                    (/\ ListedAs(q, q.feed[j].symbol, {"SETTLING", "TRADING"})
                     /\ ~ListedAs(q, q.feed[j].symbol, {"TRADING"}))
                    => \A k \in DOMAIN q.pairs : q.pairs[k].symbol # q.feed[j].symbol

\* A run over a feed of more than 100 eligible tickers, cut to 100, with a
\* SETTLING symbol of the highest volume in the feed, answered 200.
C12_Witness ==
    \E r \in DOMAIN req :
        LET q == req[r]
        IN  /\ q.pc = "done"
            /\ q.resp.status = 200
            /\ Cardinality(EligibleInFeed(q)) > 100
            /\ Len(q.pairs) = 100
            /\ \E j \in DOMAIN q.feed :
                /\ ListedAs(q, q.feed[j].symbol, {"SETTLING"})
                /\ \A k \in DOMAIN q.pairs :
                    Ge(VolumeOf(q.feed[j]), VolumeOf(q.pairs[k]))

\* C13: a request whose exchangeInfo or ticker call failed is answered 429
\* when the failure was HTTP 429 and 500 when it was anything else; it has
\* requested no candles and no open interest, and has left the cache as it
\* found it.
C13_UniverseErrorsClassified ==
    \A r \in DOMAIN req :
        LET q == req[r]
        IN  (q.pc = "done" /\ q.failure \in {"exchangeInfo", "ticker"}) =>
                /\ Len(q.thrown) = 1
                /\ q.thrown[1].status = 429 => q.resp.status = 429
                /\ q.thrown[1].status # 429 => q.resp.status = 500
                /\ "error" \in DOMAIN q.resp.body
                /\ q.upstream \subseteq {"exchangeInfo", "ticker"}
                /\ q.results = <<>>
                /\ q.wrote = NoEntry
                /\ cache = q.seen

\* The ticker call failed with HTTP 429 after the exchangeInfo call succeeded.
C13_Witness ==
    \E r \in DOMAIN req :
        /\ req[r].pc = "done"
        /\ req[r].failure = "ticker"
        /\ req[r].thrown # <<>>
        /\ req[r].thrown[1].status = 429
        /\ req[r].resp = Response(429, RateLimitBody)

\* A run the upstream rate-limited: the exchangeInfo or ticker call failed
\* with HTTP 429, or the merged result is empty and every symbol's 1d candle
\* fetch ended in 429.
RateLimitedRun(q) ==
    \/ /\ q.failure \in {"exchangeInfo", "ticker"}
       /\ q.thrown # <<>>
       /\ q.thrown[1].status = 429
    \/ /\ q.failure = "empty"
       /\ q.fates # <<>>
       /\ \A j \in DOMAIN q.fates : q.fates[j] = "coarse429"

\* C14: every request ends with exactly one of a non-empty record set, a
\* rate-limit error (429) or another error (500); a run that failed because
\* the upstream rate-limited it, the run whose every candle fetch ended in
\* 429 included, ends with the rate-limit error.
C14_RateLimitReported ==
    \A r \in DOMAIN req :
        LET q == req[r]
        IN  q.pc = "done" =>
                /\ \/ q.resp.status = 200 /\ "array" \in DOMAIN q.resp.body
                      /\ q.resp.body.array # <<>>
                   \/ q.resp.status \in {429, 500} /\ "error" \in DOMAIN q.resp.body
                /\ RateLimitedRun(q) => q.resp.status = 429

\* C15: a task that returns a record has a 24h quote volume of at least
\* 10,000, carried by the record, and a second-to-last 1d candle whose close
\* is present, a number and above 0; no other record reaches the merge, the
\* response or the cache entry.
C15_ValidityGate ==
    (task.pc = "settled" /\ task.result # Null) =>
        /\ ~Lt(task.result.volume, Num(10000))
        /\ task.result.volume = parseFloat(task.ticker.quoteVolume)
        /\ Len(TaskRows) >= 2
        /\ LET prior == TaskRows[Len(TaskRows) - 1]
           IN  /\ prior # Null
               /\ ~isNaN(parseFloat(prior.close))
               /\ Gt(parseFloat(prior.close), Num(0))

\* A record is returned at the volume bound itself, from two 1d candles.
C15_Witness ==
    /\ task.pc = "settled"
    /\ task.result # Null
    /\ task.result.volume = Num(10000)
    /\ Len(TaskRows) = 2

\* records is by non-increasing volume, and for each volume the records of
\* that volume are those of merged, in the order they have there.
OrderedByVolume(records, merged) ==
    /\ \A k \in 1..(Len(records) - 1) :
        Ge(records[k].volume, records[k + 1].volume)
    /\ \A v \in { merged[k].volume : k \in DOMAIN merged } :
        LET HasVolume(record) == record.volume = v
        IN  SelectSeq(records, HasVolume) = SelectSeq(merged, HasVolume)

\* C16: the records of a successful response, and of the cache entry written
\* with it, are by non-increasing volume, records of equal volume in the
\* order of the merge, whichever symbols were dropped.
C16_SortedByVolume ==
    \A r \in DOMAIN req :
        LET q == req[r]
        IN  (q.pc = "done" /\ q.resp.status = 200) =>
                /\ OrderedByVolume(q.resp.body.array, q.results)
                /\ q.wrote.present
                /\ OrderedByVolume(q.wrote.data, q.results)
                /\ cache = q.wrote
                /\ Len(q.resp.body.array) = Len(q.results)

\* A successful run over four batches: one record of volume 30000 and many
\* of volume 20000, with a symbol dropped from a later batch.
C16_Witness ==
    \E r \in DOMAIN req :
        LET q == req[r]
            records == q.resp.body.array
        IN  /\ q.pc = "done"
            /\ q.resp.status = 200
            /\ Len(q.pairs) > 3 * BATCH_SIZE
            /\ Len(records) > 3 * BATCH_SIZE
            /\ records[1].volume = Num(30000)
            /\ records[2].volume = Num(20000)
            /\ records[3].volume = Num(20000)
            /\ \E j \in DOMAIN q.fates : q.fates[j] = "coarse429"

\* C17: no two records of a successful response, or of the cache entry
\* written with it, carry the same symbol.
C17_DistinctSymbols ==
    \A r \in DOMAIN req :
        LET q == req[r]
        IN  (q.pc = "done" /\ q.resp.status = 200) =>
                /\ \A j, k \in DOMAIN q.resp.body.array :
                    j # k => q.resp.body.array[j].symbol # q.resp.body.array[k].symbol
                /\ \A j, k \in DOMAIN q.wrote.data :
                    j # k => q.wrote.data[j].symbol # q.wrote.data[k].symbol

-----------------------------------------------------------------------------
(* Claims about the batch loop, under SpecBatch *)

BatchesOf(n) == (n + 24) \div 25

\* C18: at most 25 tasks are in flight; the tasks in flight belong to one
\* batch, every task of the batches before it has settled and none of a
\* later batch has started; each batch after the first started 100 ms after
\* the allSettled of the one before resumed; a pause is taken between
\* batches only, so one fewer than batches, and none after the last; and a
\* task awaiting its klines issued the 1d and the 4h request together,
\* before either was answered.
C18_BatchedConcurrency ==
    loop.pc # "idle" =>
        /\ Cardinality(InFlight(loop)) <= 25
        /\ \A k \in 1..loop.n :
            /\ k <= loop.i => loop.stage[k] = "settled"
            /\ k > loop.i + 25 => loop.stage[k] = "waiting"
        /\ Len(loop.gaps) = loop.batches - 1
        /\ \A j \in DOMAIN loop.gaps : loop.gaps[j] = 100
        /\ loop.pc = "batch" => loop.pauses = loop.batches - 1
        /\ loop.pc = "pause" =>
            /\ loop.pauses = loop.batches - 1
            /\ loop.batches < BatchesOf(loop.n)
            /\ InFlight(loop) = {}
        /\ loop.pc = "done" =>
            /\ loop.batches = BatchesOf(loop.n)
            /\ loop.pauses = BatchesOf(loop.n) - 1
            /\ \A k \in 1..loop.n : loop.stage[k] = "settled"
        /\ \A k \in 1..loop.n :
            /\ loop.stage[k] = "klines" =>
                /\ loop.issued[k] = {"1d", "4h"}
                /\ loop.pending[k] # {}
            /\ loop.stage[k] = "waiting" => loop.issued[k] = {}

\* The second of three batches has just started, 100 ms after the first
\* one's allSettled: its 25 tasks are in flight, each with both klines
\* requests unanswered.
C18_Witness ==
    /\ loop.pc = "batch"
    /\ loop.n = 51
    /\ loop.batches = 2
    /\ loop.pauses = 1
    /\ loop.gaps = <<100>>
    /\ InFlight(loop) = 26..50
    /\ \A k \in 26..50 : loop.pending[k] = {"1d", "4h"}

-----------------------------------------------------------------------------
(* Claims about the returns of a record, under SpecSymbol *)

\* The k-period return as C19 states it: 0 with fewer than k + 1 candles,
\* else the change of the current price against the close k candles before
\* the last one, in percent.
StatedReturn(rows, currentPrice, k) ==
    IF Len(rows) < k + 1 THEN Num(0)
    ELSE LET c == parseFloat(rows[Len(rows) - k].close)
         IN  Mul(Div(Sub(currentPrice, c), c), Num(100))

\* C19: for k = 1, 7 and 30 the k-period return of a record is 0 with fewer
\* than k + 1 1d candles, and otherwise (currentPrice - c) / c * 100 for the
\* close c taken k periods back.
C19_RollingReturns ==
    (task.pc = "settled" /\ task.result # Null) =>
        LET currentPrice == parseFloat(task.ticker.lastPrice)
        IN  /\ task.result.dailyReturn = StatedReturn(TaskRows, currentPrice, 1)
            /\ task.result.weeklyReturn = StatedReturn(TaskRows, currentPrice, 7)
            /\ task.result.monthlyReturn = StatedReturn(TaskRows, currentPrice, 30)

\* C20: the monthly return of a record is the change, in percent, of the
\* current price against the close 30 days before the last candle, or against
\* the earliest candle's close when the history is shorter than that.
C20_MonthlyReturnFallback ==
    (task.pc = "settled" /\ task.result # Null) =>
        LET currentPrice == parseFloat(task.ticker.lastPrice)
            back == Min({30, Len(TaskRows) - 1})
            c == parseFloat(TaskRows[Len(TaskRows) - back].close)
        IN  task.result.monthlyReturn = Mul(Div(Sub(currentPrice, c), c), Num(100))

-----------------------------------------------------------------------------
(* Claims about the indicators of a record, under SpecSymbol *)

VwapFields == <<"vwap7d", "vwap30d", "vwap90d", "vwap365d">>
VwapDistanceFields ==
    <<"vwapDistance7d", "vwapDistance30d", "vwapDistance90d", "vwapDistance365d">>

\* C21: for each window of 7, 30, 90 and 365 candles, with n 1d candles and
\* m = min(window, n): when the volumes of the last m candles sum to zero
\* the VWAP is the current price and its distance 0; otherwise the VWAP is
\* the sum of typicalPrice * volume over the sum of volume of those m candles.
\* Stated on the fields as the task computes them, ahead of the open-interest
\* block, and on the record as carrying those fields.
C21_VwapFallback ==
    /\ (task.pc = "settled" /\ task.result # Null) =>
        \A w \in 1..4 :
            /\ task.result[VwapFields[w]] = task.ind[VwapFields[w]]
            /\ task.result[VwapDistanceFields[w]] = task.ind[VwapDistanceFields[w]]
    /\ task.pc = "oi" =>
        \A w \in 1..4 :
            LET n == Len(TaskRows)
                m == Min({<<7, 30, 90, 365>>[w], n})
                volume == SumVolume(TaskRows, n - m + 1, n)
                priceVolume == SumPriceVolume(TaskRows, n - m + 1, n)
                vwap == task.ind[VwapFields[w]]
                distance == task.ind[VwapDistanceFields[w]]
            IN  /\ volume = Num(0) =>
                    /\ vwap = parseFloat(task.ticker.lastPrice)
                    /\ distance = Num(0)
                /\ volume # Num(0) => vwap = Div(priceVolume, volume)

\* Ten candles, nothing traded in the last seven: the 7-candle VWAP is the
\* current price, the 30-candle VWAP is that of all ten candles.
C21_Witness ==
    /\ task.pc = "settled"
    /\ task.result # Null
    /\ Len(TaskRows) = 10
    /\ task.result.currentPrice = Num(100)
    /\ task.result.vwap7d = Num(100)
    /\ task.result.vwapDistance7d = Num(0)
    /\ task.result.vwap30d = Num(90)

\* The closes of rows that are positive, finite numbers, in order.
UsableClose(row) ==
    LET close == parseFloat(row.close)
    IN  close # NaN /\ close # PosInf /\ close # NegInf /\ Gt(close, Num(0))
UsableCloses(rows) ==
    LET usable == SelectSeq(rows, UsableClose)
    IN  [i \in 1..Len(usable) |-> parseFloat(usable[i].close)]

\* The EMA as C22 states it: the current price with fewer than 200 usable
\* closes, else the first usable close carried over every later one with
\* factor 2 / 201.
StatedEma(rows, currentPrice) ==
    LET closes == UsableCloses(rows)
    IN  IF Len(closes) < 200 THEN currentPrice
        ELSE EmaFold(closes, 2, Len(closes), closes[1], Q(2, 201))

\* C22: the 200-period EMA of the 1d candles, and of the 4h candles, is the
\* current price whenever the series has fewer than 200 closes that are
\* positive finite numbers, and otherwise the EMA seeded with the first such
\* close and iterated over every later one with factor 2 / 201.
C22_EmaFallback ==
    /\ (task.pc = "settled" /\ task.result # Null) =>
        /\ task.result.ema2001d = task.ind.ema2001d
        /\ task.result.ema2004h = task.ind.ema2004h
    /\ task.pc = "oi" =>
        LET currentPrice == parseFloat(task.ticker.lastPrice)
            rows4h == Klines4hOf(task.kl4h)
        IN  /\ task.ind.ema2001d = StatedEma(TaskRows, currentPrice)
            /\ ~HasNull(rows4h) =>
                   task.ind.ema2004h = StatedEma(rows4h, currentPrice)

\* 201 4h candles, one close unparsable, so exactly 200 usable closes: the
\* EMA is computed over them; the 1d series of two candles falls back.
C22_Witness ==
    /\ task.pc = "settled"
    /\ task.result # Null
    /\ Len(Klines4hOf(task.kl4h)) = 201
    /\ ~HasNull(Klines4hOf(task.kl4h))
    /\ Len(UsableCloses(Klines4hOf(task.kl4h))) = 200
    /\ task.result.ema2004h = Q(20140, 201)
    /\ Len(TaskRows) = 2
    /\ task.result.currentPrice = Num(110)
    /\ task.result.ema2001d = Num(110)

\* The day-over-day returns, in percent, among the last 31 of rows (at
\* least 31 of them): one for each candle after the first whose close and
\* whose predecessor's close are both above 0.
DayPairs(rows) ==
    [i \in 1..30 |-> [prev |-> parseFloat(rows[Len(rows) - 31 + i].close),
                      curr |-> parseFloat(rows[Len(rows) - 30 + i].close)]]
ValidPair(pair) == Gt(pair.prev, Num(0)) /\ Gt(pair.curr, Num(0))
DayReturns(rows) ==
    LET pairs == SelectSeq(DayPairs(rows), ValidPair)
    IN  [i \in 1..Len(pairs) |->
            Mul(Div(Sub(pairs[i].curr, pairs[i].prev), pairs[i].prev), Num(100))]
MeanOf(xs) == Div(SumSeq(xs), Num(Len(xs)))
VarianceOf(xs) == Div(SumSqDev(xs, MeanOf(xs)), Num(Len(xs)))

\* Today's return: the current price against the last candle's close.
TodayReturn(rows, currentPrice) ==
    LET last == parseFloat(rows[Len(rows)].close)
    IN  Mul(Div(Sub(currentPrice, last), last), Num(100))

C24_ZScoreAsShown ==
    (task.pc = "settled" /\ task.result # Null /\ task.result.zScore.present) =>
        LET shown == formatZScore(task.result.zScore)
            above == Sub(TodayReturn(TaskRows, parseFloat(task.ticker.lastPrice)),
                         MeanOf(DayReturns(TaskRows)))
        IN  /\ task.result.zScore.sign = Sign(above[1])
            /\ Gt(above, Num(0)) => shown.colour = "positive"
            /\ Lt(above, Num(0)) => shown.colour = "negative"

-----------------------------------------------------------------------------
(* C25: the reference of an open-interest change *)

\* The entries of the accepted history within the tolerance of the target,
\* and among them the ones closest to it.
WithinTolerance(oiHistory, target, tolerance) ==
    {i \in 1..Len(oiHistory) :
        /\ oiHistory[i] # Null
        /\ Abs(oiHistory[i].timestamp - target) < tolerance}

ClosestWithin(oiHistory, target, tolerance) ==
    {i \in WithinTolerance(oiHistory, target, tolerance) :
        \A j \in WithinTolerance(oiHistory, target, tolerance) :
            Abs(oiHistory[i].timestamp - target) <= Abs(oiHistory[j].timestamp - target)}

\* The change the statement gives from one reference entry.
StatedOIChange(currentOI, entry) ==
    IF validOI(entry)
    THEN Mul(Div(Sub(currentOI, parseFloat(entry.sumOpenInterest)),
                 parseFloat(entry.sumOpenInterest)), Num(100))
    ELSE Absent

StatedOIField(value, currentOI, oiHistory, target, tolerance) ==
    IF WithinTolerance(oiHistory, target, tolerance) = {} THEN value = Absent
    ELSE \E i \in ClosestWithin(oiHistory, target, tolerance) :
            value = StatedOIChange(currentOI, oiHistory[i])

\* C25: when the current open interest is valid and a history was accepted,
\* each oiChange field is computed from the history entry closest to
\* now - 24h (now - 7d) among the entries within 2 h (12 h) of that instant;
\* it is absent when no entry lies within the tolerance or the value of that
\* entry is not positive, and (currentOI - pastOI) / pastOI * 100 otherwise.
C25_ClosestReference ==
    (/\ task.pc = "settled"
     /\ task.result # Null
     /\ CurrentOIOf(task.oi) # Absent
     /\ FirstAccepted(task.hist) # <<>>) =>
        LET currentOI == CurrentOIOf(task.oi)
            oiHistory == FirstAccepted(task.hist)
        IN  /\ StatedOIField(task.result.oiChange24h, currentOI, oiHistory,
                             task.t - DayMs, Tolerance24h)
            /\ StatedOIField(task.result.oiChange7d, currentOI, oiHistory,
                             task.t - 7 * DayMs, Tolerance7d)

-----------------------------------------------------------------------------
(* C26: the phases of a run *)

\* A run whose upstream calls all settle: every request carries a timeout
\* (1432, 1463, 1554, 1567) and the retries are bounded, so each await of
\* the handler resumes.
\* WF_vars(RunBatchAnswered) is written with its ENABLED spelled out: the
\* await of the batch resumes exactly while pc = "batches", and each
\* resumption changes i or pc.
BatchAwaitResumes ==
    []<>(req[1].pc # "batches") \/ []<><<RunBatchAnswered>>_vars
SpecRunFair ==
    /\ InitRun
    /\ [][RunNext]_vars
    /\ WF_vars(RunExchangeInfoAnswered)
    /\ WF_vars(RunTickerAnswered)
    /\ BatchAwaitResumes

RunCached(q) ==
    q.pc = "done" /\ q.resp.status = 200 /\ q.wrote.present
RunFailed(q) ==
    q.pc = "done" /\ q.resp.status # 200 /\ ~q.wrote.present

Phase(q) ==
    CASE q.pc = "idle" -> "Idle"
      [] q.pc \in {"exchangeInfo", "ticker"} -> "ResolvingUniverse"
      [] q.pc = "batches" -> "FetchingBatches"
      [] RunCached(q) -> "Cached"
      [] RunFailed(q) -> "Failed"
      [] OTHER -> "none"

PhaseSteps ==
    { <<"Idle", "ResolvingUniverse">>,
      <<"ResolvingUniverse", "ResolvingUniverse">>,
      <<"ResolvingUniverse", "FetchingBatches">>,
      <<"ResolvingUniverse", "Failed">>,
      <<"FetchingBatches", "FetchingBatches">>,
      <<"FetchingBatches", "Cached">>,
      <<"FetchingBatches", "Failed">> }

NonIncreasingVolume(records) ==
    \A k \in 1..(Len(records) - 1) : ~Gt(records[k + 1].volume, records[k].volume)

\* What each state of a run shows: a known phase, candle requests only
\* after both universe calls succeeded, and a cache entry only from a run
\* that ended Cached.
RunPhaseState ==
    LET q == req[1]
    IN  /\ Phase(q) # "none"
        /\ "klines" \in q.upstream =>
              /\ {"exchangeInfo", "ticker"} \subseteq q.upstream
              /\ q.thrown = <<>>
              /\ q.feed # <<>>
              /\ Len(q.pairs) > 0
        /\ Phase(q) \in {"Idle", "ResolvingUniverse"} => "klines" \notin q.upstream
        /\ cache.present => RunCached(q) /\ cache = q.wrote
        /\ Phase(q) # "Cached" => ~cache.present

\* What each step of a run does: it moves along the order of the phases,
\* and it writes the cache only when the last batch has been merged, with
\* the merged records in sorted order.
RunPhaseStep ==
    LET q == req[1]
        p == req'[1]
    IN  /\ req' # req => <<Phase(q), Phase(p)>> \in PhaseSteps
        /\ cache' # cache =>
              /\ Phase(q) = "FetchingBatches"
              /\ Phase(p) = "Cached"
              /\ Len(p.fates) = Len(p.pairs)
              /\ q.i + BATCH_SIZE >= Len(q.pairs)
              /\ cache'.data = CryptoData(p.results)
              /\ NonIncreasingVolume(cache'.data)

\* C26: a run goes through Idle, ResolvingUniverse, FetchingBatches and the
\* final merge in this order and ends either Cached or Failed, never both;
\* no candle request is issued before the exchangeInfo and ticker calls have
\* both succeeded; the cache is written only once every batch has been
\* merged and the records sorted; and when the upstream calls settle, every
\* run that has started ends Cached or Failed.
C26_RunPhases ==
    /\ [](RunPhaseState)
    /\ [][RunPhaseStep]_vars
    /\ (req[1].pc # "idle") ~> (RunCached(req[1]) \/ RunFailed(req[1]))

\* A run of four batches that ended Cached, and whose cache entry holds the
\* merged records.
C26_Witness ==
    LET q == req[1]
    IN  /\ RunCached(q)
        /\ Len(q.pairs) > 3 * BATCH_SIZE
        /\ "klines" \in q.upstream
        /\ cache = q.wrote
        /\ Len(cache.data) > BATCH_SIZE

-----------------------------------------------------------------------------
(* C27: what a streamed update may change *)

SameIndicators(a, b) == \A f \in IndicatorFields : a[f] = b[f]

\* One list after an update map was merged into it.
MergedFrame(before, after, updates) ==
    /\ Len(after) = Len(before)
    /\ \A k \in 1..Len(before) :
        /\ after[k].symbol = before[k].symbol
        /\ SameIndicators(after[k], before[k])
        /\ before[k].symbol \notin DOMAIN updates => after[k] = before[k]
        /\ before[k].symbol \in DOMAIN updates =>
            \A f \in LiveFields :
                after[k][f] = IF updates[before[k].symbol][f] # Absent
                              THEN updates[before[k].symbol][f]
                              ELSE before[k][f]

-----------------------------------------------------------------------------
(* C28: every number of a record is finite *)

ReturnFields == {"dailyReturn", "weeklyReturn", "monthlyReturn"}
DistanceFields ==
    {"vwapDistance7d", "vwapDistance30d", "vwapDistance90d", "vwapDistance365d",
     "ema200Distance4h", "ema200Distance1d"}

\* The ticker of the task is one the universe resolution lets through.
TickerInUniverse ==
    /\ Gt(parseFloat(task.ticker.lastPrice), Num(0))
    /\ Gt(parseFloat(task.ticker.quoteVolume), Num(0))

\* C28: a record returned by a task has a price above 0, a volume above 0,
\* and finite returns, VWAP distances and EMA distances, whatever the closes
\* of the candles the weekly and monthly returns refer to.
C28_FiniteRecord ==
    (task.pc = "settled" /\ task.result # Null /\ TickerInUniverse) =>
        /\ Gt(task.result.currentPrice, Num(0))
        /\ Gt(task.result.volume, Num(0))
        /\ \A f \in ReturnFields \cup DistanceFields : isFinite(task.result[f])

-----------------------------------------------------------------------------
(* C29: the cache entry is replaced as a whole *)

\* e is the entry run q wrote at its end: the filtered and sorted records
\* of all its batches, with the time of that write.
EntryOfRun(e, q) ==
    /\ q.pc = "done"
    /\ q.wrote = e
    /\ Len(q.fates) = Len(q.pairs)
    /\ e.data = CryptoData(q.results)
    /\ e.timestamp >= q.at

\* C29: whatever the interleaving of the requests, the cache entry, and
\* every entry a request has read on arrival, is the entry one finished
\* run wrote: its records are all the merged records of that run and its
\* timestamp is the time of that run's write; a request answered from the
\* cache answers with the records of the entry it read.
C29_AtomicCacheReplacement ==
    /\ cache.present => \E w \in DOMAIN req : EntryOfRun(cache, req[w])
    /\ \A r \in DOMAIN req :
        /\ req[r].seen.present =>
              \E w \in DOMAIN req : w # r /\ EntryOfRun(req[r].seen, req[w])
        /\ (req[r].pc = "done" /\ req[r].upstream = {} /\ req[r].seen.present) =>
              req[r].resp = Response(200, JsonArray(req[r].seen.data))

\* Two runs have written different entries, and a request that arrived
\* while a run was in progress read one of them.
C29_Witness ==
    \E r, w, v \in DOMAIN req :
        /\ req[r].seen.present
        /\ req[r].during # {}
        /\ req[w].wrote = req[r].seen
        /\ req[v].wrote.present
        /\ req[v].wrote # req[w].wrote

-----------------------------------------------------------------------------
(* C30: the order of the open-interest history candidates *)

\* A candidate answering status 200 with a non-empty array as its payload.
ArrayAccepted(resp) ==
    /\ resp.st = "fulfilled"
    /\ resp.status = 200
    /\ resp.data.kind = "array"
    /\ resp.data.runs # <<>>

\* The same, or with the non-empty array under the payload's data or
\* result field.
ArrayOrWrappedAccepted(resp) ==
    /\ resp.st = "fulfilled"
    /\ resp.status = 200
    /\ resp.data.kind \in {"array", "wrapped"}
    /\ resp.data.runs # <<>>

IsPrefix(s, t) == Len(s) <= Len(t) /\ s = SubSeq(t, 1, Len(s))

\* The oiChange fields computed from the rows of one candidate.
ChangesFrom(resp) ==
    LET currentOI == CurrentOIOf(task.oi)
        oiHistory == Expand(resp.data.runs)
    IN  [oiChange24h |->
            OIChange(currentOI,
                     PastOI(oiHistory, intervals24h, task.t - DayMs, Tolerance24h)),
         oiChange7d |->
            OIChange(currentOI,
                     PastOI(oiHistory, intervals7d, task.t - 7 * DayMs, Tolerance7d))]

\* The law of the candidates for a given notion of an accepted answer.
CandidateLaw(Accepted(_)) ==
    (task.pc = "settled" /\ task.ind # Null /\ CurrentOIOf(task.oi) # Absent) =>
        LET firsts == {k \in 1..Len(task.hist) :
                          /\ Accepted(task.hist[k])
                          /\ \A j \in 1..(k - 1) : ~Accepted(task.hist[j])}
        IN  /\ IsPrefix(task.asked, Endpoints)
            /\ \A k \in firsts :
                /\ task.asked = SubSeq(Endpoints, 1, k)
                /\ task.result # Null =>
                    /\ task.result.oiChange24h = ChangesFrom(task.hist[k]).oiChange24h
                    /\ task.result.oiChange7d = ChangesFrom(task.hist[k]).oiChange7d
            /\ firsts = {} =>
                /\ task.asked = Endpoints
                /\ task.result # Null =>
                    /\ task.result.oiChange24h = Absent
                    /\ task.result.oiChange7d = Absent

-----------------------------------------------------------------------------
(* C32: the cache is written only by a run with a non-empty record set *)

\* The step of a run that ends it with status 200 after the batch loop.
Succeeds(r) ==
    /\ req[r].pc = "batches"
    /\ req'[r].pc = "done"
    /\ req'[r].resp.status = 200

CacheWrittenBySuccess ==
    cache' # cache =>
        \E r \in Requests :
            /\ Succeeds(r)
            /\ Len(req'[r].resp.body.array) > 0
            /\ cache' = Entry(req'[r].resp.body.array, now)

\* C32: a step changes the cache entry only if it is the last step of a run
\* whose merged record set is not empty, and then the entry holds that set;
\* every other step (a 429 or another error of a universe request, an empty
\* merged set, a thrown exception) leaves the entry as it was, and the entry
\* never holds an empty record set.
C32_CacheWrittenOnlyBySuccess ==
    /\ [](cache.present => Len(cache.data) > 0)
    /\ [][CacheWrittenBySuccess]_vars

\* Reached: an entry written by the first request is still in the cache,
\* unchanged, after the second request has failed with it stale.
C32_Witness ==
    /\ req[1].resp.status = 200 /\ req[1].failure = "none"
    /\ req[2].pc = "done" /\ req[2].resp.status \in {429, 500}
    /\ req[2].seen.present /\ ~CacheHit(req[2].seen, req[2].at)
    /\ cache = req[1].wrote /\ cache.present

-----------------------------------------------------------------------------
(* C33: one response on every path of the handler *)

\* C33: a request whose handler has returned (after a cache hit, a 429 of a
\* universe request, any other thrown error, an empty merged result, or
\* success) has been sent exactly one response, and a request whose handler
\* has not returned has been sent none.
C33_ExactlyOneResponse ==
    \A r \in Requests :
        IF req[r].pc = "done"
        THEN Len(req[r].sent) = 1 /\ req[r].sent[1] = req[r].resp
        ELSE Len(req[r].sent) = 0

\* Reached: one request answered 429 by the catch around exchangeInfo, the
\* other answered 500 for an empty merged result after its batch loop.
C33_Witness ==
    /\ req[1].pc = "done" /\ req[1].failure = "exchangeInfo"
    /\ req[1].resp.status = 429
    /\ req[2].pc = "done" /\ req[2].failure = "empty"
    /\ Len(req[2].fates) > 0

-----------------------------------------------------------------------------
(* C31: what ws.onmessage forwards *)

\* The allow-list in lower case, and the tickers of a frame that carries an
\* array.
AllowList == { toLowerCase(sock.symbols[i]) : i \in 1..Len(sock.symbols) }
Unparseable(data) ==
    JSONparse(data).threw \/ JSONparse(data).value.kind # "array"
TickersOf(data) ==
    IF Unparseable(data) THEN {}
    ELSE { JSONparse(data).value.items[k] : k \in 1..Len(JSONparse(data).value.items) }

\* An entry of the update map stems from a ticker of the frame whose symbol
\* is in the allow-list and whose price and quote volume are numbers.
ForwardedTick(data, key, update) ==
    /\ toLowerCase(key) \in AllowList
    /\ update.symbol = key
    /\ \E ticker \in TickersOf(data) :
        /\ ticker.s = key
        /\ ~isNaN(parseFloat(ticker.c)) /\ update.currentPrice = parseFloat(ticker.c)
        /\ ~isNaN(parseFloat(ticker.q)) /\ update.volume = parseFloat(ticker.q)

MessageForwarded ==
    sock.last = "message" =>
        /\ Len(sock.delivered) <= 1
        /\ \A c \in DOMAIN sock.delivered :
            /\ DOMAIN sock.delivered[c] # {}
            /\ \A key \in DOMAIN sock.delivered[c] :
                ForwardedTick(sock.frame[1], key, sock.delivered[c][key])
        /\ Unparseable(sock.frame[1]) => sock.delivered = <<>>

ConnectionState(h) ==
    <<h.isConnected, h.connectionError, h.sockets, h.wsRef, h.timers, h.timerRef>>
MessageKeepsConnection ==
    sock'.last = "message" => ConnectionState(sock') = ConnectionState(sock)

\* C31: a message makes at most one call of the update callback; every
\* entry of the map it hands over is a tick of the message whose symbol is
\* in the allow-list, compared in lower case, and whose price and quote
\* volume both parse to numbers; the map is never empty; a message that
\* cannot be parsed causes no call; and no message changes the connection
\* state.
C31_ForwardsAllowedTicks ==
    [](MessageForwarded) /\ [][MessageKeepsConnection]_vars

\* Reached: the list holds 'ethusdt' in lower case, and the tick of ETHUSDT
\* is forwarded together with the one of BTCUSDT.
C31_Witness ==
    /\ sock.last = "message"
    /\ sock.symbols = <<"BTCUSDT", "ethusdt">>
    /\ Len(sock.delivered) = 1
    /\ DOMAIN sock.delivered[1] = {"BTCUSDT", "ETHUSDT"}

-----------------------------------------------------------------------------
(* C34 - C36: the connections of useBinanceWebSocket, under SpecSocket *)

Live == { s \in DOMAIN sock.sockets : sock.sockets[s].readyState \in {"CONNECTING", "OPEN"} }

\* C34: at any time at most one WebSocket constructed by the hook is
\* CONNECTING or OPEN.
C34_AtMostOneLiveSocket == Cardinality(Live) <= 1

\* A socket constructed by the callback of a timer that the close event of
\* a socket closed by the effect's cleanup has set.
BornOfCleanup(s) ==
    LET t == sock.sockets[s].by
    IN  /\ t # 0
        /\ sock.timers[t].for # 0
        /\ sock.sockets[sock.timers[t].for].closedBy = "cleanup"

\* C35: no WebSocket is ever constructed by a reconnect timer set on behalf
\* of a socket that the cleanup has closed.
C35_NoReconnectAfterCleanup ==
    \A s \in DOMAIN sock.sockets : ~BornOfCleanup(s)

\* The timers one behaviour can set: one per socket closed and one per
\* failed construction.
Timers == 1..(MaxSockets + MaxFailures)

\* The hook is mounted with a non-empty symbol list.
Watching == sock.mounted /\ Len(sock.symbols) > 0

\* Timer t stands for a closure that the cleanup did not cause, or for a
\* failed construction, no connection has been attempted since, and the
\* model has a socket left for the attempt.
AwaitsReconnect(t) ==
    /\ t \in DOMAIN sock.timers
    /\ sock.timers[t].for # 0 => sock.sockets[sock.timers[t].for].closedBy = "peer"
    /\ sock.timers[t].delay =
           IF sock.timers[t].for # 0 THEN CloseReconnectDelay ELSE CatchReconnectDelay
    /\ sock.attempts = sock.timers[t].at
    /\ Len(sock.sockets) < MaxSockets
    /\ Watching
Reattempted(t) ==
    \/ ~Watching
    \/ t \in DOMAIN sock.timers /\ sock.attempts > sock.timers[t].at

OpenClearsTimers ==
    sock'.last = "open" =>
        \A t \in DOMAIN sock'.timers : sock'.timers[t].state # "pending"

\* C36: while the hook stays mounted with a non-empty symbol list, every
\* closure of a socket that the cleanup did not cause and every failed
\* construction is eventually followed by a new connection attempt, made by
\* the timer of 3000 ms and of 5000 ms respectively, and after a socket
\* has opened no reconnect timer is pending.
C36_ReconnectsUntilOpen ==
    /\ \A t \in Timers : AwaitsReconnect(t) ~> Reattempted(t)
    /\ [][OpenClearsTimers]_vars

-----------------------------------------------------------------------------
(* C37: the sort state machine, under SpecSort *)

DefaultIffNoColumn == (sorting.sortState = "default") <=> (sorting.sortColumn = <<>>)

SortStep ==
    LET was == SortOf(sorting.sortColumn, sorting.sortState)
        is == SortOf(sorting'.sortColumn, sorting'.sortState)
        last == sorting'.last
    IN  /\ last.op = "click" =>
            IF was.sortColumn = <<last.arg>>
            THEN /\ was.sortState = "highest" => is = SortOf(<<last.arg>>, "lowest")
                 /\ was.sortState = "lowest" => is = SortOf(<<>>, "default")
            ELSE is = SortOf(<<last.arg>>, "highest")
        /\ last.op = "fetched" /\ last.arg => is = SortOf(<<>>, "default")
        /\ last.op = "fetched" /\ ~last.arg => is = was
        /\ last.op \in {"fetchData", "fetchFailed"} => is = was

\* C37: sortState is 'default' exactly when sortColumn is null; a click on
\* the sorted header takes highest to lowest and lowest to (null,
\* 'default'), a click on any other header gives that column with
\* 'highest'; a fetchData(true) that succeeds resets to (null, 'default'),
\* and a fetchData(false), a failed fetch and the call of fetchData leave
\* the sort state as it was.
C37_SortStateMachine ==
    [](DefaultIffNoColumn) /\ [][SortStep]_vars

\* Reached: the third click on the price header, back to (null, 'default')
\* with the rows in the order of the snapshot.
C37_Witness ==
    /\ sorting.last = LastOp("click", "price")
    /\ sorting.sortColumn = <<>> /\ sorting.sortState = "default"
    /\ Len(sorting.data) = 3 /\ sorting.data = sorting.originalData

-----------------------------------------------------------------------------
(* C38: the stored watchlists, under SpecWatchlists *)

\* The list a load of the storage gives.
StoredWatchlists ==
    IF watch.storage = <<>> THEN <<>>
    ELSE LET parsed == ParseWatchlists(watch.storage[1])
         IN  IF ~parsed.threw /\ parsed.isArray THEN parsed.value ELSE <<>>

ReloadRestores == watch'.last = "reload" => watch'.watchlists = watch.watchlists

\* C38: once the hook has mounted and the save effect has run, the list in
\* localStorage is the list in memory, after every create, delete, rename,
\* addCoin and removeCoin, the deletion of the last watchlist included; so
\* a reload gives back the list that was shown before it.
C38_StoredEqualsShown ==
    /\ [](watch.mounted => watch.storage # <<>> /\ StoredWatchlists = watch.watchlists)
    /\ [][ReloadRestores]_vars

-----------------------------------------------------------------------------
(* C39: the profile list and the active profile, under SpecProfiles *)

ActiveIsListed ==
    prof.mounted =>
        /\ Len(prof.profiles) > 0
        /\ prof.activeProfileId # <<>>
        /\ HasProfile(prof.profiles, prof.activeProfileId[1])

Remaining(id) == LET Other(q) == q.id # id IN Filter(prof.profiles, Other)

ProfileStep ==
    LET last == prof'.last
    IN  /\ last.op = "delete" /\ prof.activeProfileId = <<last.arg>>
              /\ Len(Remaining(last.arg)) > 0
            => /\ prof'.profiles = Remaining(last.arg)
               /\ prof'.activeProfileId = <<Remaining(last.arg)[1].id>>
        /\ last.op = "delete" /\ Len(Remaining(last.arg)) = 0
            => /\ prof'.profiles = <<DefaultProfile>>
               /\ prof'.activeProfileId = <<"default">>
        /\ last.op = "switch" /\ ~HasProfile(prof.profiles, last.arg)
            => /\ prof'.profiles = prof.profiles
               /\ prof'.activeProfileId = prof.activeProfileId

=========================================================================
